---- MODULE Spec2Model ----
(***************************************************************************)
(* Model of the boot-decision oracles and scenario generators of the      *)
(* OTA fault-injection harness (scripts/state_fuzzer.py and               *)
(* scripts/mcuboot_state_fuzzer.py), of its invariant checker              *)
(* (scripts/invariants.py), its write-trace heuristic                      *)
(* (scripts/write_trace_heuristic.py), its geometry validators             *)
(* (scripts/geometry_matrix.py) and its audit campaign                     *)
(* (scripts/audit_bootloader.py).                                          *)
(*                                                                         *)
(* 32-bit words are pairs <<hi, lo>> of 16-bit halves, because the values  *)
(* the oracle compares (0x80000000, 0xFFFFFFFF) do not fit the checker's   *)
(* integers; arithmetic on them is done modulo 2^32 with carry/borrow.     *)
(***************************************************************************)
EXTENDS Integers, Sequences, FiniteSets, TLC

VARIABLES
    scenario,     \* the FuzzScenario handed to expected_outcome
    outcome,      \* the BootOutcome of the last evaluation, or None
    trace,        \* locals of the last evaluation (selected, requested_slot, validity)
    globalRng,    \* state of the module-level `random` generator
    mcuScenario,  \* the MCUbootScenario handed to predict_boot
    prediction,   \* the BootPrediction of the last call, or None
    lastGen,      \* the last generate_scenarios call and its result, or None
    prevGen,      \* the generate_scenarios call before it, or None
    invCall,      \* the arguments of run_invariants
    invReturn,    \* what run_invariants returned or that it raised, or None
    toolCall,     \* the arguments of the offline tool function being called
    toolReturn,   \* what that function returned, or None
    audit         \* the state of one run of audit_bootloader.main, or None

abVars == <<scenario, outcome, trace, globalRng>>

mcuVars == <<mcuScenario, prediction>>

genVars == <<lastGen, prevGen>>

invVars == <<invCall, invReturn>>

toolVars == <<toolCall, toolReturn>>

vars == <<abVars, mcuVars, genVars, invVars, toolVars, audit>>

\* Optional[T]: None is the empty sequence, a value v is <<v>>
None == <<>>

Some(v) == <<v>>

IsSome(o) == o # None

Get(o) == o[1]

\* ------------------------------------------------------------------------
\* 32-bit words as <<hi, lo>>
\* ------------------------------------------------------------------------
Half == 65536

W(hi, lo) == <<hi, lo>>

WLt(a, b) == a[1] < b[1] \/ (a[1] = b[1] /\ a[2] < b[2])

WLe(a, b) == a = b \/ WLt(a, b)

\* (a + b) & 0xFFFFFFFF
WAdd(a, b) ==
    LET lo == a[2] + b[2]
        carry == IF lo >= Half THEN 1 ELSE 0
    IN  <<(a[1] + b[1] + carry) % Half, lo % Half>>

\* (a - b) & 0xFFFFFFFF
WSub(a, b) ==
    LET borrow == IF a[2] < b[2] THEN 1 ELSE 0
    IN  <<(a[1] - b[1] - borrow) % Half, (a[2] - b[2]) % Half>>

\* struct.pack('<I', w): the four bytes of a word, least significant first
PackLE(w) == <<w[2] % 256, w[2] \div 256, w[1] % 256, w[1] \div 256>>

\* struct.unpack('<I', b): the word of four little-endian bytes
UnpackLE(b) == <<b[4] * 256 + b[3], b[2] * 256 + b[1]>>

\* ------------------------------------------------------------------------
\* state_fuzzer.py: constants
\* ------------------------------------------------------------------------
SLOT_A_BASE == W(4096, 8192)      \* 0x10002000

SLOT_B_BASE == W(4099, 36864)     \* 0x10039000

SRAM_START == W(8192, 0)          \* 0x20000000

SRAM_END == W(8194, 0)            \* 0x20020000

SlotSpan == W(3, 28672)           \* 0x37000, the literal of _vectors_valid_from_state

STATE_CONFIRMED == 0

STATE_PENDING_TEST == 1

DefaultMaxBootCount == 3

\* ------------------------------------------------------------------------
\* The module-level `random` generator and random.Random(seed).
\* The Mersenne Twister is replaced by a short cyclic stream of 32-bit
\* outputs: a generator state is a position in the stream, every draw
\* returns the output at the position and advances it by one.
\* getrandbits(8) is the top byte of one output, as in CPython.
\* ------------------------------------------------------------------------
RngTopBytes ==
    <<  0,  16,   0,  32,   1,  33,   0,  16,     \* 0x20001000, 0x10002101
        0,  16,   0,  32,   1, 145,   3,  16,     \* 0x20001000, 0x10039101
      255,  60, 129,   7,   2, 200,  77, 190 >>   \* 0x0781_3CFF, 0xBE4D_C802

RngPeriod == Len(RngTopBytes)

RngAdvance(pos, n) == (pos + n) % RngPeriod

\* random.getrandbits(8) at position pos
GetRandBits8(pos) == RngTopBytes[pos + 1]

\* bytes(random.getrandbits(8) for _ in range(8)) at position pos
RandomBytes8(pos) == [i \in 1..8 |-> GetRandBits8(RngAdvance(pos, i - 1))]

\* ------------------------------------------------------------------------
\* state_fuzzer.py: build_slot_vectors, _seq_ge, _vectors_valid_from_state
\* ------------------------------------------------------------------------
\* x | 1 on a word
OrOne(w) == <<w[1], w[2] + (1 - (w[2] % 2))>>

\* x & ~1 on a word
ClearBit0(w) == <<w[1], w[2] - (w[2] % 2)>>

\* The 8 bytes (SP, reset vector) of a slot; pos is the state of the global
\* generator when the call starts.
build_slot_vectors(slot_state, slot_base, pos) ==
    IF slot_state.content_pattern = "zeros" THEN
        [i \in 1..8 |-> 0]
    ELSE IF slot_state.content_pattern = "random" THEN
        RandomBytes8(pos)
    ELSE IF slot_state.content_pattern = "partial_write" THEN
        IF slot_state.has_valid_vectors
        THEN PackLE(WAdd(SRAM_START, W(0, 4096))) \o <<255, 255, 255, 255>>
        ELSE [i \in 1..8 |-> 255]
    ELSE IF slot_state.has_valid_vectors THEN
        PackLE(WAdd(SRAM_START, W(0, 4096)))
            \o PackLE(OrOne(WAdd(slot_base, W(0, 256))))
    ELSE
        PackLE(W(0, 0)) \o PackLE(W(0, 0))

\* The number of draws build_slot_vectors takes from the global generator
SlotVectorDraws(slot_state) ==
    IF slot_state.content_pattern = "random" THEN 8 ELSE 0

\* faulty variant: plain unsigned comparison, no wraparound
_seq_ge_no_wrap(a, b) == WLe(b, a)

_seq_ge(a, b) == WSub(a, b)[1] < 32768

\* lines 262-268: the test applied to the unpacked stack pointer and reset vector
VectorsValid(sp, reset_vector, slot_base) ==
    LET reset_pc == ClearBit0(reset_vector)
    IN  /\ WLe(SRAM_START, sp) /\ WLe(sp, SRAM_END)
        /\ reset_vector[2] % 2 = 1
        /\ WLe(slot_base, reset_pc) /\ WLt(reset_pc, WAdd(slot_base, SlotSpan))

_vectors_valid_from_state(slot_state, slot_base, pos) ==
    LET vec_bytes == build_slot_vectors(slot_state, slot_base, pos)
        sp == UnpackLE(SubSeq(vec_bytes, 1, 4))
        reset_vector == UnpackLE(SubSeq(vec_bytes, 5, 8))
    IN  VectorsValid(sp, reset_vector, slot_base)

\* ------------------------------------------------------------------------
\* state_fuzzer.py: expected_outcome
\* ------------------------------------------------------------------------
\* faulty variant: a failed boot still names slot A
BootOutcomeSlotZero(boots, boot_slot, reason) ==
    [boots |-> boots, boot_slot |-> Some(0), reason |-> reason]

BootOutcome(boots, boot_slot, reason) ==
    [boots |-> boots, boot_slot |-> boot_slot, reason |-> reason]

\* faulty variant: replica0 is selected whenever it is valid
SelectReplicaFirstValid(scn) ==
    IF IsSome(scn.replica0) /\ Get(scn.replica0).valid THEN Some(0)
    ELSE IF IsSome(scn.replica1) /\ Get(scn.replica1).valid THEN Some(1)
    ELSE None

\* lines 293-319: which replica is selected (None, Some(0) or Some(1))
SelectReplica(scn) ==
    LET r0_valid == IsSome(scn.replica0) /\ Get(scn.replica0).valid
        r1_valid == IsSome(scn.replica1) /\ Get(scn.replica1).valid
    IN  IF r0_valid /\ r1_valid THEN
            IF _seq_ge(Get(scn.replica0).seq, Get(scn.replica1).seq)
            THEN Some(0) ELSE Some(1)
        ELSE IF r0_valid THEN Some(0)
        ELSE IF r1_valid THEN Some(1)
        ELSE None

\* the MetadataState the selection names
SelectedReplica(scn) ==
    LET sel == SelectReplica(scn)
    IN  IF sel = None THEN None
        ELSE IF Get(sel) = 0 THEN scn.replica0 ELSE scn.replica1

\* faulty variant: no firmware-default fallback for max_boot_count = 0
EffectiveMaxNoFallback(m) == m.max_boot_count

\* line 328
EffectiveMax(m) ==
    IF m.max_boot_count > 0 THEN m.max_boot_count ELSE DefaultMaxBootCount

\* lines 331-336
FlipSlot(requested_slot) ==
    IF requested_slot = W(0, 0) THEN W(0, 1)
    ELSE IF requested_slot = W(0, 1) THEN W(0, 0)
    ELSE W(0, 0)

\* faulty variant: with no replica selected the default is slot B
RequestedSlotDefaultB(selected) ==
    IF selected # None THEN
        LET m == Get(selected)
        IN  IF m.state = STATE_PENDING_TEST /\ m.boot_count >= EffectiveMax(m)
            THEN FlipSlot(m.active_slot)
            ELSE m.active_slot
    ELSE W(0, 1)

\* lines 322-341: the requested slot, given Optional[MetadataState]
RequestedSlot(selected) ==
    IF selected # None THEN
        LET m == Get(selected)
        IN  IF m.state = STATE_PENDING_TEST /\ m.boot_count >= EffectiveMax(m)
            THEN FlipSlot(m.active_slot)
            ELSE m.active_slot
    ELSE W(0, 0)

\* faulty variant: the requested slot is tried alone, without the fallback
SlotFallbackNoRetry(requested_slot, slot_a_valid, slot_b_valid) ==
    IF requested_slot = W(0, 1) THEN
        IF slot_b_valid THEN BootOutcome(TRUE, Some(1), "slot B vectors valid")
        ELSE BootOutcome(FALSE, None, "slot B invalid")
    ELSE
        IF slot_a_valid THEN BootOutcome(TRUE, Some(0), "slot A vectors valid")
        ELSE BootOutcome(FALSE, None, "slot A invalid")

\* lines 347-411: slot selection with fallback
SlotFallback(requested_slot, slot_a_valid, slot_b_valid) ==
    IF requested_slot = W(0, 0) THEN
        IF slot_a_valid THEN BootOutcome(TRUE, Some(0), "slot A vectors valid")
        ELSE IF slot_b_valid
        THEN BootOutcome(TRUE, Some(1), "slot A invalid, fell back to slot B")
        ELSE BootOutcome(FALSE, None, "both slots have invalid vectors")
    ELSE IF requested_slot = W(0, 1) THEN
        IF slot_b_valid THEN BootOutcome(TRUE, Some(1), "slot B vectors valid")
        ELSE IF slot_a_valid
        THEN BootOutcome(TRUE, Some(0), "slot B invalid, fell back to slot A")
        ELSE BootOutcome(FALSE, None, "both slots have invalid vectors")
    ELSE
        IF slot_a_valid
        THEN BootOutcome(TRUE, Some(0), "invalid slot id, fell back to slot A")
        ELSE IF slot_b_valid
        THEN BootOutcome(TRUE, Some(1), "invalid slot id, fell back to slot B")
        ELSE BootOutcome(FALSE, None, "invalid slot id, both slots invalid")

\* The locals of one call of expected_outcome with the global generator at
\* pos: slot A's vectors are built first, slot B's after them.
OutcomeLocals(scn, pos) ==
    [selected |-> SelectReplica(scn),
     requested_slot |-> RequestedSlot(SelectedReplica(scn)),
     slot_a_valid |-> _vectors_valid_from_state(scn.slot_a, SLOT_A_BASE, pos),
     slot_b_valid |-> _vectors_valid_from_state(scn.slot_b, SLOT_B_BASE,
                         RngAdvance(pos, SlotVectorDraws(scn.slot_a)))]

expected_outcome(scn, pos) ==
    LET l == OutcomeLocals(scn, pos)
    IN  SlotFallback(l.requested_slot, l.slot_a_valid, l.slot_b_valid)

\* the state of the global generator after expected_outcome(scn) from pos
RngAfterOutcome(scn, pos) ==
    RngAdvance(pos, SlotVectorDraws(scn.slot_a) + SlotVectorDraws(scn.slot_b))

\* ------------------------------------------------------------------------
\* mcuboot_state_fuzzer.py: predict_boot
\* Magic, SwapType, FlagState and BootAction members are named by strings.
\* ------------------------------------------------------------------------
ERASED_BYTE == 255

BootPrediction(action, boots, boot_slot, triggers_swap, reason) ==
    [action |-> action, boots |-> boots, boot_slot |-> boot_slot,
     triggers_swap |-> triggers_swap, reason |-> reason]

_swap_started(t) ==
    \E i \in 1..Len(t.sector_status) : t.sector_status[i] # ERASED_BYTE

\* faulty variant: incomplete only when no sector has completed
_swap_incomplete_all(t) ==
    /\ Len(t.sector_status) > 0
    /\ \A i \in 1..Len(t.sector_status) : t.sector_status[i] # 0

_swap_incomplete(t) ==
    /\ Len(t.sector_status) > 0
    /\ \E i \in 1..Len(t.sector_status) : t.sector_status[i] # 0

\* faulty variant: every return to slot 0 is taken as a revert
_boot0_swapping(scn, reason, swap) ==
    BootPrediction("REVERT", scn.slot0_valid,
                   IF scn.slot0_valid THEN Some(0) ELSE None,
                   TRUE, reason)

_boot0(scn, reason, swap) ==
    BootPrediction(IF ~swap THEN "BOOT_SLOT0" ELSE "REVERT",
                   scn.slot0_valid,
                   IF scn.slot0_valid THEN Some(0) ELSE None,
                   swap, reason)

\* faulty variant: the dual-revert check is missing
RevertPathNoStuck(scn) ==
    IF _swap_started(scn.slot0_trailer) /\ _swap_incomplete(scn.slot0_trailer) THEN
        BootPrediction("RESUME_REVERT", scn.slot0_valid,
                       IF scn.slot0_valid THEN Some(0) ELSE None,
                       TRUE, "resuming interrupted revert")
    ELSE _boot0(scn, "revert requested", TRUE)

\* lines 175-183
RevertPath(scn) ==
    LET s0 == scn.slot0_trailer
        s1 == scn.slot1_trailer
    IN  IF s1.magic = "GOOD" /\ s1.swap_type = "REVERT" THEN
            BootPrediction("STUCK", FALSE, None, FALSE, "both slots swap_type=REVERT")
        ELSE IF _swap_started(s0) /\ _swap_incomplete(s0) THEN
            BootPrediction("RESUME_REVERT", scn.slot0_valid,
                           IF scn.slot0_valid THEN Some(0) ELSE None,
                           TRUE, "resuming interrupted revert")
        ELSE _boot0(scn, "revert requested", TRUE)

\* faulty variant: a completed PERM swap is not auto-confirmed
SwapPathNoPermConfirm(scn) ==
    LET s0 == scn.slot0_trailer
        s1 == scn.slot1_trailer
    IN  IF s0.copy_done = "SET" THEN
            IF s0.image_ok = "SET" THEN _boot0(scn, "swap done, image_ok confirmed", FALSE)
            ELSE _boot0(scn, "swap done but image_ok unset; revert", TRUE)
        ELSE IF _swap_started(s0) \/ _swap_started(s1) THEN
            BootPrediction("RESUME_SWAP", scn.slot0_valid \/ scn.slot1_valid,
                           IF scn.slot0_valid THEN Some(0)
                           ELSE IF scn.slot1_valid THEN Some(1) ELSE None,
                           TRUE, "swap in progress; resuming")
        ELSE
            BootPrediction("SWAP_AND_BOOT", scn.slot1_valid,
                           IF scn.slot1_valid THEN Some(0) ELSE None,
                           TRUE, "starting swap")

\* lines 186-205
SwapPath(scn) ==
    LET s0 == scn.slot0_trailer
        s1 == scn.slot1_trailer
    IN  IF s0.copy_done = "SET" THEN
            IF s0.image_ok = "SET" THEN _boot0(scn, "swap done, image_ok confirmed", FALSE)
            ELSE IF s1.swap_type = "PERM" THEN _boot0(scn, "swap done (PERM)", FALSE)
            ELSE _boot0(scn, "swap done but image_ok unset (TEST); revert", TRUE)
        ELSE IF _swap_started(s0) \/ _swap_started(s1) THEN
            BootPrediction("RESUME_SWAP", scn.slot0_valid \/ scn.slot1_valid,
                           IF scn.slot0_valid THEN Some(0)
                           ELSE IF scn.slot1_valid THEN Some(1) ELSE None,
                           TRUE, "swap in progress; resuming")
        ELSE
            BootPrediction("SWAP_AND_BOOT", scn.slot1_valid,
                           IF scn.slot1_valid THEN Some(0) ELSE None,
                           TRUE, "starting swap")

\* faulty variant: the swap path accepts a partially written magic
predict_boot_partial_magic(scn) ==
    LET s0 == scn.slot0_trailer
        s1 == scn.slot1_trailer
    IN  IF s0.magic = "GOOD" /\ s0.swap_type = "REVERT" THEN RevertPath(scn)
        ELSE IF s1.magic \in {"GOOD", "PARTIAL"} /\ s1.swap_type \in {"TEST", "PERM"}
        THEN SwapPath(scn)
        ELSE _boot0(scn, "no swap trigger", FALSE)

predict_boot(scn) ==
    LET s0 == scn.slot0_trailer
        s1 == scn.slot1_trailer
    IN  IF s0.magic = "GOOD" /\ s0.swap_type = "REVERT" THEN RevertPath(scn)
        ELSE IF s1.magic = "GOOD" /\ s1.swap_type \in {"TEST", "PERM"} THEN SwapPath(scn)
        ELSE IF s1.magic = "PARTIAL" THEN _boot0(scn, "slot 1 magic partial", FALSE)
        ELSE IF s0.magic = "PARTIAL" THEN _boot0(scn, "slot 0 magic partial", FALSE)
        ELSE _boot0(scn, "no swap trigger", FALSE)

\* ------------------------------------------------------------------------
\* Inputs of the MCUboot oracle
\* ------------------------------------------------------------------------
MaxSectors == 2

Magics == {"GOOD", "UNSET", "BAD", "PARTIAL"}

SwapTypes == {"NONE", "TEST", "PERM", "REVERT"}

FlagStates == {"UNSET", "SET", "BAD"}

\* a completed sector, a byte that is neither marker, an erased sector
StatusBytes == {0, 1, ERASED_BYTE}

SectorStatuses(n) == [1..n -> StatusBytes]

\* swap_size is never read by the oracle and stays at the dataclass default
Trailers(flags, statuses) ==
    [magic : Magics, image_ok : flags, copy_done : flags, swap_type : SwapTypes,
     swap_size : {W(65535, 65535)}, sector_status : statuses,
     num_sectors : {Len(st) : st \in statuses}]

MCUbootScenarioSet(flags, statuses) ==
    {sc \in [slot0_trailer : Trailers(flags, statuses),
             slot1_trailer : Trailers(flags, statuses),
             slot0_valid : BOOLEAN, slot1_valid : BOOLEAN,
             description : {"input"}, bug_class : {None}] :
        /\ sc.slot0_trailer.num_sectors = Len(sc.slot0_trailer.sector_status)
        /\ sc.slot1_trailer.num_sectors = Len(sc.slot1_trailer.sector_status)
        /\ sc.slot0_trailer.num_sectors = sc.slot1_trailer.num_sectors}

\* Every combination of magic, flags and swap type with erased or half-done
\* sectors, and every pair of sector-status lists of one length with the
\* flags left unset.
MCUbootScenarios ==
    MCUbootScenarioSet(FlagStates, {<<ERASED_BYTE, ERASED_BYTE>>, <<0, ERASED_BYTE>>})
    \cup
    UNION {MCUbootScenarioSet({"UNSET"}, SectorStatuses(n)) : n \in 0..MaxSectors}

\* ------------------------------------------------------------------------
\* Inputs of the A/B oracle
\* ------------------------------------------------------------------------
MaxBootCount == 3

MaxMaxBootCount == 1

SeqValues == {W(0, 0), W(0, 1), W(32768, 0), W(65535, 65535)}

ActiveSlots == {W(0, 0), W(0, 1), W(0, 99)}

ContentPatterns == {"valid_app", "zeros", "random", "partial_write"}

\* target_slot is never read by the oracle and is left at 0
MetadataStates ==
    [seq : SeqValues, active_slot : ActiveSlots, target_slot : {W(0, 0)},
     state : {STATE_CONFIRMED, STATE_PENDING_TEST},
     boot_count : 0..MaxBootCount, max_boot_count : 0..MaxMaxBootCount,
     valid : BOOLEAN]

Replicas == {None} \cup {Some(m) : m \in MetadataStates}

SlotStates == [has_valid_vectors : BOOLEAN, content_pattern : ContentPatterns]

ValidApp == [has_valid_vectors |-> TRUE, content_pattern |-> "valid_app"]

PlainSlotStates ==
    {ValidApp, [has_valid_vectors |-> FALSE, content_pattern |-> "zeros"]}

PlainReplicas ==
    {None} \cup
    {Some(m) : m \in
        [seq : {W(0, 0), W(0, 1)}, active_slot : ActiveSlots,
         target_slot : {W(0, 0)},
         state : {STATE_CONFIRMED, STATE_PENDING_TEST},
         boot_count : {DefaultMaxBootCount}, max_boot_count : {0},
         valid : BOOLEAN]}

\* Every pair of replicas with plain slots, and every pair of slots with
\* plain replicas.
FuzzScenarios ==
    [replica0 : Replicas, replica1 : Replicas,
     slot_a : PlainSlotStates, slot_b : {ValidApp},
     fault_at : {None}, description : {"input"}]
    \cup
    [replica0 : PlainReplicas, replica1 : PlainReplicas,
     slot_a : SlotStates, slot_b : SlotStates,
     fault_at : {None}, description : {"input"}]

\* ------------------------------------------------------------------------
\* The A/B oracle applied to a scenario, any number of times
\* ------------------------------------------------------------------------
IdleScenario ==
    [replica0 |-> None, replica1 |-> None, slot_a |-> ValidApp, slot_b |-> ValidApp,
     fault_at |-> None, description |-> "idle"]

IdleMcuScenario ==
    CHOOSE sc \in MCUbootScenarioSet({"UNSET"}, {<<>>}) :
        /\ sc.slot0_trailer.magic = "UNSET" /\ sc.slot0_trailer.swap_type = "NONE"
        /\ sc.slot1_trailer.magic = "UNSET" /\ sc.slot1_trailer.swap_type = "NONE"
        /\ sc.slot0_valid /\ sc.slot1_valid

\* a control run without nvm_state, checked with no context
IdleInvCall ==
    [result |-> [fault_at |-> 0, boot_outcome |-> "success", boot_slot |-> None,
                 nvm_state |-> None, raw_log |-> "", is_control |-> TRUE],
     invariants |-> None,
     context |-> [pre_state |-> None, write_log |-> None, partition_ranges |-> None]]

InitAB ==
    /\ scenario \in FuzzScenarios
    /\ outcome = None
    /\ trace = None
    /\ globalRng = 0
    /\ mcuScenario = IdleMcuScenario
    /\ prediction = None
    /\ lastGen = None
    /\ prevGen = None
    /\ invCall = IdleInvCall
    /\ invReturn = None
    /\ toolCall = None
    /\ toolReturn = None
    /\ audit = None

\* outcome = expected_outcome(scenario)
ExpectedOutcome ==
    /\ outcome' = Some(expected_outcome(scenario, globalRng))
    /\ trace' = Some(OutcomeLocals(scenario, globalRng))
    /\ globalRng' = RngAfterOutcome(scenario, globalRng)
    /\ UNCHANGED <<scenario, mcuVars, genVars, invVars, toolVars, audit>>

NextAB == ExpectedOutcome

SpecAB == InitAB /\ [][NextAB]_vars

\* ------------------------------------------------------------------------
\* The MCUboot oracle applied to a scenario
\* ------------------------------------------------------------------------
InitMcu ==
    /\ mcuScenario \in MCUbootScenarios
    /\ prediction = None
    /\ scenario = IdleScenario
    /\ outcome = None
    /\ trace = None
    /\ globalRng = 0
    /\ lastGen = None
    /\ prevGen = None
    /\ invCall = IdleInvCall
    /\ invReturn = None
    /\ toolCall = None
    /\ toolReturn = None
    /\ audit = None

\* prediction = predict_boot(mcuScenario)
PredictBoot ==
    /\ prediction' = Some(predict_boot(mcuScenario))
    /\ UNCHANGED <<mcuScenario, abVars, genVars, invVars, toolVars, audit>>

NextMcu == PredictBoot

SpecMcu == InitMcu /\ [][NextMcu]_vars

\* ------------------------------------------------------------------------
\* Claims about the A/B oracle (checked under SpecAB)
\* ------------------------------------------------------------------------
Evaluated == outcome # None

BothReplicasValid ==
    /\ IsSome(scenario.replica0) /\ Get(scenario.replica0).valid
    /\ IsSome(scenario.replica1) /\ Get(scenario.replica1).valid

Seq0 == Get(scenario.replica0).seq

Seq1 == Get(scenario.replica1).seq

\* C1: with both replicas present and valid, replica0 is selected iff
\* ((seq0 - seq1) mod 2^32) < 2^31 and replica1 otherwise; equal sequence
\* numbers select replica0, 0xFFFFFFFF against 1 selects replica1 and
\* 0x80000000 against 1 selects replica0.
C1_WraparoundSelection ==
    (Evaluated /\ BothReplicasValid) =>
        /\ Get(trace).selected \in {Some(0), Some(1)}
        /\ Get(trace).selected = Some(0)
              <=> WLt(WSub(Seq0, Seq1), W(32768, 0))
        /\ Seq0 = Seq1 => Get(trace).selected = Some(0)
        /\ (Seq0 = W(65535, 65535) /\ Seq1 = W(0, 1))
              => Get(trace).selected = Some(1)
        /\ (Seq0 = W(32768, 0) /\ Seq1 = W(0, 1))
              => Get(trace).selected = Some(0)

C1_Witness ==
    /\ Evaluated /\ BothReplicasValid
    /\ Seq0 = W(65535, 65535) /\ Seq1 = W(0, 1)
    /\ Get(trace).selected = Some(1)

\* the replica the claims call "selected", read off the recorded selection
TraceSelected ==
    IF Get(trace).selected = Some(0) THEN Get(scenario.replica0)
    ELSE Get(scenario.replica1)

C2_Budget(m) == IF m.max_boot_count > 0 THEN m.max_boot_count ELSE 3

C2_Exhausted(m) == m.state = 1 /\ m.boot_count >= C2_Budget(m)

ReplicaInvalid(r) == r = None \/ ~Get(r).valid

\* C4: when both replicas are invalid (absent or valid = false) and slot A
\* has valid vectors, the oracle predicts boots = True and boot_slot = 0,
\* whatever the invalid replicas and slot B hold.
C4_DefaultSlotA ==
    (/\ Evaluated
     /\ ReplicaInvalid(scenario.replica0) /\ ReplicaInvalid(scenario.replica1)
     /\ Get(trace).slot_a_valid)
        => (Get(outcome).boots /\ Get(outcome).boot_slot = Some(0))

C4_Witness ==
    /\ Evaluated
    /\ scenario.replica0 # None /\ ~Get(scenario.replica0).valid
    /\ Get(scenario.replica0).active_slot = W(0, 1)
    /\ scenario.replica1 # None /\ ~Get(scenario.replica1).valid
    /\ Get(scenario.replica1).active_slot = W(0, 1)
    /\ Get(trace).slot_a_valid /\ Get(trace).slot_b_valid
    /\ Get(outcome).boot_slot = Some(0)

\* C9: two evaluations of expected_outcome on the same scenario return the
\* same boots and boot_slot, for every content_pattern including "random".
C9_Deterministic ==
    [][outcome # None =>
          /\ Get(outcome').boots = Get(outcome).boots
          /\ Get(outcome').boot_slot = Get(outcome).boot_slot]_vars

\* ------------------------------------------------------------------------
\* Claims about the MCUboot oracle (checked under SpecMcu)
\* ------------------------------------------------------------------------
Predicted == prediction # None

S0 == mcuScenario.slot0_trailer

S1 == mcuScenario.slot1_trailer

GoodRevert(t) == t.magic = "GOOD" /\ t.swap_type = "REVERT"

\* C5: both trailers with magic GOOD and swap_type REVERT give action STUCK,
\* boots = False and no boot slot, whatever the other fields and the slot
\* validity flags are.
C5_DualRevertStuck ==
    (Predicted /\ GoodRevert(S0) /\ GoodRevert(S1)) =>
        /\ Get(prediction).action = "STUCK"
        /\ Get(prediction).boots = FALSE
        /\ Get(prediction).boot_slot = None

C5_Witness ==
    /\ Predicted /\ GoodRevert(S0) /\ GoodRevert(S1)
    /\ mcuScenario.slot0_valid /\ mcuScenario.slot1_valid
    /\ S0.sector_status = <<0, ERASED_BYTE>>
    /\ Get(prediction).action = "STUCK"

\* C6 as stated: a slot1 trailer with magic PARTIAL never predicts
\* triggers_swap = True, with any slot0 trailer.
C6_PartialNeverSwaps ==
    (Predicted /\ S1.magic = "PARTIAL") => Get(prediction).triggers_swap = FALSE

\* C6 amended: a slot1 trailer with magic PARTIAL never predicts
\* triggers_swap = True unless slot0 itself requests a revert (slot0 magic
\* GOOD with swap_type REVERT).
C6_PartialNeverSwapsUnlessRevert ==
    (Predicted /\ S1.magic = "PARTIAL" /\ ~GoodRevert(S0)) =>
        Get(prediction).triggers_swap = FALSE

C6_Witness ==
    /\ Predicted /\ S1.magic = "PARTIAL" /\ S1.swap_type = "TEST"
    /\ S0.magic = "GOOD" /\ S0.swap_type = "NONE"
    /\ Get(prediction).action = "BOOT_SLOT0"
    /\ Get(prediction).triggers_swap = FALSE

\* C7: slot0 not GOOD+REVERT, slot1 GOOD with TEST or PERM, slot0.copy_done
\* SET: BOOT_SLOT0 without swap if slot0.image_ok is SET or slot1 is PERM,
\* otherwise REVERT with triggers_swap; boots equals slot0_valid either way.
C7_CopyDone ==
    (/\ Predicted /\ ~GoodRevert(S0)
     /\ S1.magic = "GOOD" /\ S1.swap_type \in {"TEST", "PERM"}
     /\ S0.copy_done = "SET") =>
        /\ IF S0.image_ok = "SET" \/ S1.swap_type = "PERM"
           THEN /\ Get(prediction).action = "BOOT_SLOT0"
                /\ Get(prediction).triggers_swap = FALSE
           ELSE /\ Get(prediction).action = "REVERT"
                /\ Get(prediction).triggers_swap = TRUE
        /\ Get(prediction).boots = mcuScenario.slot0_valid

C7_Witness ==
    /\ Predicted /\ ~GoodRevert(S0)
    /\ S1.magic = "GOOD" /\ S1.swap_type = "PERM"
    /\ S0.copy_done = "SET" /\ S0.image_ok = "UNSET"
    /\ ~mcuScenario.slot0_valid
    /\ Get(prediction).action = "BOOT_SLOT0" /\ ~Get(prediction).boots

HasByte(st, P(_)) == \E i \in 1..Len(st) : P(st[i])

C8_NotErased(b) == b # 255

C8_NotDone(b) == b # 0

C8_Done(b) == b = 0

\* C8 as stated: for slot0 GOOD+REVERT and slot1 not GOOD+REVERT the action is
\* RESUME_REVERT iff slot0.sector_status has a byte different from 0xFF, a
\* byte different from 0x00 and a byte equal to 0x00; otherwise REVERT.
C8_IncompleteNeedsDoneByte ==
    (Predicted /\ GoodRevert(S0) /\ ~GoodRevert(S1)) =>
        IF /\ HasByte(S0.sector_status, C8_NotErased)
           /\ HasByte(S0.sector_status, C8_NotDone)
           /\ HasByte(S0.sector_status, C8_Done)
        THEN Get(prediction).action = "RESUME_REVERT"
        ELSE Get(prediction).action = "REVERT"

\* C8 amended: for slot0 GOOD+REVERT and slot1 not GOOD+REVERT the action is
\* RESUME_REVERT iff slot0.sector_status has a byte different from 0xFF and
\* a byte different from 0x00 (no byte need equal 0x00); otherwise REVERT.
C8_IncompleteAnyNotDone ==
    (Predicted /\ GoodRevert(S0) /\ ~GoodRevert(S1)) =>
        IF /\ HasByte(S0.sector_status, C8_NotErased)
           /\ HasByte(S0.sector_status, C8_NotDone)
        THEN Get(prediction).action = "RESUME_REVERT"
        ELSE Get(prediction).action = "REVERT"

C8_Witness ==
    /\ Predicted /\ GoodRevert(S0) /\ ~GoodRevert(S1)
    /\ S0.sector_status = <<1, 1>>
    /\ Get(prediction).action = "RESUME_REVERT"

\* ------------------------------------------------------------------------
\* random.Random(seed): draws of a generator at stream position pos.
\* Every draw takes one output of the stream.
\* ------------------------------------------------------------------------
\* the 32-bit output at pos; its top byte is RngTopBytes[pos + 1]
RngWord(pos) ==
    W(RngTopBytes[pos + 1] * 256 + ((pos * 37) % 256), (pos * 9973) % Half)

\* rng._randbelow(n)
RandBelow(pos, n) == RngTopBytes[pos + 1] % n

\* rng.choice(seq)
Choice(pos, seq) == seq[RandBelow(pos, Len(seq)) + 1]

\* rng.randint(a, b) for a small range
RandInt(pos, a, b) == a + RandBelow(pos, b - a + 1)

\* rng.randint(lo, hi) for 32-bit bounds
RandWordIn(pos, lo, hi) ==
    LET x == RngWord(pos)
    IN  IF WLt(x, lo) \/ WLt(hi, x) THEN lo ELSE x

\* rng.random() > num / den
RandomAbove(pos, num, den) == RngTopBytes[pos + 1] * den > 256 * num

\* the state of random.Random(seed)
SeedPosition(seed) == (seed * 5) % RngPeriod

\* faulty variant: the generator draws from the module-level generator
NewRandomShared(seed, shared) == shared

\* rng = random.Random(seed): a generator of its own, whatever state the
\* module-level generator is in
NewRandom(seed, shared) == SeedPosition(seed)

\* ------------------------------------------------------------------------
\* state_fuzzer.py: generate_scenarios
\* ------------------------------------------------------------------------
MetadataState(seq, active_slot, target_slot, state, boot_count, max_boot_count, valid) ==
    [seq |-> seq, active_slot |-> active_slot, target_slot |-> target_slot,
     state |-> state, boot_count |-> boot_count,
     max_boot_count |-> max_boot_count, valid |-> valid]

SlotState(has_valid_vectors, content_pattern) ==
    [has_valid_vectors |-> has_valid_vectors, content_pattern |-> content_pattern]

\* fault_at is None in every generated scenario; a description is the tuple
\* of its format string and arguments
FuzzScenario(replica0, replica1, slot_a, slot_b, description) ==
    [replica0 |-> replica0, replica1 |-> replica1, slot_a |-> slot_a,
     slot_b |-> slot_b, fault_at |-> None, description |-> description]

\* _random_metadata(rng, force_valid=force); force is None, Some(TRUE) or
\* Some(FALSE). The result is the value v and the generator state p after.
_random_metadata(pos, force) ==
    LET p1 == IF force = None THEN RngAdvance(pos, 1) ELSE pos
        valid == IF force = None THEN Choice(pos, <<TRUE, FALSE>>) ELSE Get(force)
    IN  [v |-> MetadataState(
                 RngWord(p1),
                 W(0, Choice(RngAdvance(p1, 1), <<0, 1>>)),
                 W(0, Choice(RngAdvance(p1, 2), <<0, 1>>)),
                 Choice(RngAdvance(p1, 3), <<STATE_CONFIRMED, STATE_PENDING_TEST>>),
                 RandInt(RngAdvance(p1, 4), 0, 10),
                 RandInt(RngAdvance(p1, 5), 1, 5),
                 valid),
         p |-> RngAdvance(p1, 6)]

\* _random_metadata(rng, force_valid=force) if rng.choice([True, False]) else None
MaybeMetadata(pos, force) ==
    IF Choice(pos, <<TRUE, FALSE>>)
    THEN LET r == _random_metadata(RngAdvance(pos, 1), force)
         IN  [v |-> Some(r.v), p |-> r.p]
    ELSE [v |-> None, p |-> RngAdvance(pos, 1)]

_random_slot(pos, force) ==
    IF force = Some(TRUE) THEN [v |-> SlotState(TRUE, "valid_app"), p |-> pos]
    ELSE IF force = Some(FALSE) THEN
        [v |-> SlotState(FALSE, Choice(pos, <<"zeros", "random", "partial_write">>)),
         p |-> RngAdvance(pos, 1)]
    ELSE
        LET has_valid == Choice(pos, <<TRUE, FALSE>>)
            pattern == Choice(RngAdvance(pos, 1),
                              <<"valid_app", "zeros", "random", "partial_write">>)
        IN  [v |-> SlotState(IF pattern = "valid_app" THEN TRUE ELSE has_valid, pattern),
             p |-> RngAdvance(pos, 2)]

Shapes ==
    <<"both_valid", "one_valid", "both_corrupt", "one_none", "both_none",
      "invalid_slot_id", "seq_boundary", "fully_random">>

SeqBoundaries ==
    << <<W(65535, 65535), W(0, 0)>>, <<W(65535, 65535), W(0, 1)>>,
       <<W(32767, 65535), W(32768, 0)>>, <<W(32768, 0), W(32767, 65535)>>,
       <<W(0, 0), W(65535, 65535)>>, <<W(65535, 65534), W(65535, 65535)>> >>

Shaped(r0, r1, desc, p) == [r0 |-> r0, r1 |-> r1, desc |-> desc, p |-> p]

\* lines 773-836: the replicas and the description of random scenario i of
\* the given shape, drawn from generator state pos
ShapeReplicas(shape, pos, i) ==
    IF shape = "both_valid" THEN
        LET a == _random_metadata(pos, Some(TRUE))
            b == _random_metadata(a.p, Some(TRUE))
        IN  Shaped(Some(a.v), Some(b.v),
                   <<"random: both replicas valid", a.v.seq, b.v.seq>>, b.p)
    ELSE IF shape = "one_valid" THEN
        IF Choice(pos, <<TRUE, FALSE>>) THEN
            LET a == _random_metadata(RngAdvance(pos, 1), Some(TRUE))
                b == MaybeMetadata(a.p, Some(FALSE))
            IN  Shaped(Some(a.v), b.v,
                       <<"random: replica0 valid, replica1",
                         IF b.v # None THEN "corrupt" ELSE "absent">>, b.p)
        ELSE
            LET a == MaybeMetadata(RngAdvance(pos, 1), Some(FALSE))
                b == _random_metadata(a.p, Some(TRUE))
            IN  Shaped(a.v, Some(b.v),
                       <<"random: replica0, replica1 valid",
                         IF a.v # None THEN "corrupt" ELSE "absent">>, b.p)
    ELSE IF shape = "both_corrupt" THEN
        LET a == _random_metadata(pos, Some(FALSE))
            b == _random_metadata(a.p, Some(FALSE))
        IN  Shaped(Some(a.v), Some(b.v), <<"random: both replicas corrupt">>, b.p)
    ELSE IF shape = "one_none" THEN
        LET a == _random_metadata(RngAdvance(pos, 1), None)
        IN  IF Choice(pos, <<TRUE, FALSE>>)
            THEN Shaped(Some(a.v), None,
                        <<"random: replica0 present, replica1 absent", a.v.valid>>, a.p)
            ELSE Shaped(None, Some(a.v),
                        <<"random: replica0 absent, replica1 present", a.v.valid>>, a.p)
    ELSE IF shape = "both_none" THEN
        Shaped(None, None, <<"random: both replicas absent (erased NVM)">>, pos)
    ELSE IF shape = "invalid_slot_id" THEN
        LET a == _random_metadata(pos, Some(TRUE))
            any == RandWordIn(a.p, W(0, 2), W(65535, 65534))
            id == Choice(RngAdvance(a.p, 1),
                         <<W(0, 2), W(0, 3), W(0, 99), W(0, 255), W(65535, 65535), any>>)
            b == MaybeMetadata(RngAdvance(a.p, 2), None)
        IN  Shaped(Some([a.v EXCEPT !.active_slot = id]), b.v,
                   <<"random: invalid slot id in replica0", id>>, b.p)
    ELSE IF shape = "seq_boundary" THEN
        LET a == _random_metadata(pos, Some(TRUE))
            b == _random_metadata(a.p, Some(TRUE))
            boundary == Choice(b.p, SeqBoundaries)
        IN  Shaped(Some([a.v EXCEPT !.seq = boundary[1]]),
                   Some([b.v EXCEPT !.seq = boundary[2]]),
                   <<"random: seq boundary test", boundary[1], boundary[2]>>,
                   RngAdvance(b.p, 1))
    ELSE
        LET a == MaybeMetadata(pos, None)
            b == MaybeMetadata(a.p, None)
        IN  Shaped(a.v, b.v, <<"random: fully random scenario", i>>, b.p)

\* lines 760-848: one iteration of the fill loop
RandomScenario(pos, i) ==
    LET sh == ShapeReplicas(Choice(pos, Shapes), RngAdvance(pos, 1), i)
        slot_a == _random_slot(sh.p, None)
        slot_b == _random_slot(slot_a.p, None)
    IN  [v |-> FuzzScenario(sh.r0, sh.r1, slot_a.v, slot_b.v, sh.desc), p |-> slot_b.p]

RECURSIVE RandomFill(_, _, _)
\* iterations i .. remaining - 1 of the fill loop
RandomFill(pos, i, remaining) ==
    IF i >= remaining THEN <<>>
    ELSE LET s == RandomScenario(pos, i)
         IN  <<s.v>> \o RandomFill(s.p, i + 1, remaining)

\* lines 521-753: the targeted edge cases
TargetedScenarios ==
    << FuzzScenario(Some(MetadataState(W(0, 5), W(0, 0), W(0, 0), 0, 0, 3, TRUE)),
                    Some(MetadataState(W(0, 3), W(0, 1), W(0, 1), 0, 0, 3, TRUE)),
                    SlotState(TRUE, "valid_app"), SlotState(TRUE, "valid_app"),
                    <<"both replicas valid, replica0 higher seq -> slot A">>),
       FuzzScenario(Some(MetadataState(W(0, 2), W(0, 0), W(0, 0), 0, 0, 3, TRUE)),
                    Some(MetadataState(W(0, 7), W(0, 1), W(0, 1), 0, 0, 3, TRUE)),
                    SlotState(TRUE, "valid_app"), SlotState(TRUE, "valid_app"),
                    <<"both replicas valid, replica1 higher seq -> slot B">>),
       FuzzScenario(Some(MetadataState(W(0, 10), W(0, 0), W(0, 0), 0, 0, 3, FALSE)),
                    Some(MetadataState(W(0, 8), W(0, 1), W(0, 1), 0, 0, 3, TRUE)),
                    SlotState(TRUE, "valid_app"), SlotState(TRUE, "valid_app"),
                    <<"replica0 corrupt, replica1 valid -> slot B">>),
       FuzzScenario(Some(MetadataState(W(0, 1), W(0, 1), W(0, 1), 0, 0, 3, FALSE)),
                    Some(MetadataState(W(0, 2), W(0, 1), W(0, 1), 0, 0, 3, FALSE)),
                    SlotState(TRUE, "valid_app"), SlotState(TRUE, "valid_app"),
                    <<"both replicas corrupt -> default slot A">>),
       FuzzScenario(Some(MetadataState(W(0, 1), W(0, 0), W(0, 0), 0, 0, 3, FALSE)),
                    Some(MetadataState(W(0, 1), W(0, 0), W(0, 0), 0, 0, 3, FALSE)),
                    SlotState(FALSE, "zeros"), SlotState(TRUE, "valid_app"),
                    <<"both replicas corrupt, default slot A invalid -> fall back to slot B">>),
       FuzzScenario(Some(MetadataState(W(0, 5), W(0, 1), W(0, 1), 0, 0, 3, TRUE)),
                    None,
                    SlotState(TRUE, "valid_app"), SlotState(FALSE, "zeros"),
                    <<"metadata says slot B but slot B invalid -> fall back to A">>),
       FuzzScenario(Some(MetadataState(W(0, 1), W(0, 0), W(0, 0), 0, 0, 3, TRUE)),
                    None,
                    SlotState(FALSE, "random"), SlotState(FALSE, "zeros"),
                    <<"both slots have invalid vectors -> hard fault">>),
       FuzzScenario(Some(MetadataState(W(65535, 65535), W(0, 0), W(0, 0), 0, 0, 3, TRUE)),
                    Some(MetadataState(W(0, 1), W(0, 1), W(0, 1), 0, 0, 3, TRUE)),
                    SlotState(TRUE, "valid_app"), SlotState(TRUE, "valid_app"),
                    <<"seq wrapping: 0xFFFFFFFF vs 0x00000001 -> replica1 wins (wrapped ahead)">>),
       FuzzScenario(Some(MetadataState(W(32768, 0), W(0, 0), W(0, 0), 0, 0, 3, TRUE)),
                    Some(MetadataState(W(0, 1), W(0, 1), W(0, 1), 0, 0, 3, TRUE)),
                    SlotState(TRUE, "valid_app"), SlotState(TRUE, "valid_app"),
                    <<"seq boundary: 0x80000000 vs 0x00000001 -> replica0 wins (within half-range)">>),
       FuzzScenario(Some(MetadataState(W(0, 5), W(0, 99), W(0, 99), 0, 0, 3, TRUE)),
                    None,
                    SlotState(TRUE, "valid_app"), SlotState(TRUE, "valid_app"),
                    <<"nonexistent slot id 99 -> fall back to slot A">>),
       FuzzScenario(None,
                    None,
                    SlotState(TRUE, "valid_app"), SlotState(FALSE, "zeros"),
                    <<"all-zero metadata (erased NVM) -> default slot A">>),
       FuzzScenario(Some(MetadataState(W(0, 3), W(0, 0), W(0, 0), 0, 0, 3, TRUE)),
                    Some(MetadataState(W(0, 4), W(0, 1), W(0, 1), 1, 0, 3, FALSE)),
                    SlotState(TRUE, "valid_app"), SlotState(TRUE, "valid_app"),
                    <<"interrupted metadata update: replica1 corrupt -> replica0 wins -> slot A">>),
       FuzzScenario(Some(MetadataState(W(0, 10), W(0, 1), W(0, 1), 1, 3, 3, TRUE)),
                    Some(MetadataState(W(0, 9), W(0, 0), W(0, 0), 0, 0, 3, TRUE)),
                    SlotState(TRUE, "valid_app"), SlotState(TRUE, "valid_app"),
                    <<"pending_test with exhausted boot_count -> slot B (bootloader reads active_slot)">>),
       FuzzScenario(Some(MetadataState(W(0, 1), W(0, 0), W(0, 0), 0, 0, 3, TRUE)),
                    None,
                    SlotState(FALSE, "partial_write"), SlotState(TRUE, "valid_app"),
                    <<"slot A partial write -> fall back to slot B">>),
       FuzzScenario(Some(MetadataState(W(0, 5), W(0, 0), W(0, 0), 0, 0, 3, TRUE)),
                    Some(MetadataState(W(0, 5), W(0, 1), W(0, 1), 0, 0, 3, TRUE)),
                    SlotState(TRUE, "valid_app"), SlotState(TRUE, "valid_app"),
                    <<"equal seq -> replica0 wins (seq_ge tie-break) -> slot A">>),
       FuzzScenario(Some(MetadataState(W(0, 1), W(65535, 65535), W(0, 0), 0, 0, 3, TRUE)),
                    None,
                    SlotState(TRUE, "valid_app"), SlotState(FALSE, "zeros"),
                    <<"max uint32 slot id -> fall back to slot A">>),
       FuzzScenario(Some(MetadataState(W(0, 0), W(0, 0), W(0, 0), 0, 0, 3, TRUE)),
                    Some(MetadataState(W(0, 1), W(0, 1), W(0, 1), 0, 0, 3, TRUE)),
                    SlotState(TRUE, "valid_app"), SlotState(TRUE, "valid_app"),
                    <<"seq=0 vs seq=1 -> replica1 wins -> slot B">>),
       FuzzScenario(None,
                    None,
                    SlotState(FALSE, "zeros"), SlotState(FALSE, "zeros"),
                    <<"totally blank NVM -> hard fault">>) >>

\* scenarios[:count]
Truncate(scenarios, count) ==
    SubSeq(scenarios, 1, IF count < Len(scenarios) THEN count ELSE Len(scenarios))

\* faulty variant: the random scenarios come before the targeted ones
generate_scenarios_random_first(count, seed, shared) ==
    LET rng == NewRandom(seed, shared)
    IN  Truncate(RandomFill(rng, 0, count) \o TargetedScenarios, count)

\* generate_scenarios(count, seed) with the module-level generator in state shared
generate_scenarios(count, seed, shared) ==
    LET rng == NewRandom(seed, shared)
        targeted_count == Len(TargetedScenarios)
        remaining == IF count - targeted_count > 0 THEN count - targeted_count ELSE 0
    IN  Truncate(TargetedScenarios \o RandomFill(rng, 0, remaining), count)

\* ------------------------------------------------------------------------
\* mcuboot_state_fuzzer.py: generate_scenarios
\* ------------------------------------------------------------------------
DEFAULT_SECTOR_SIZE == 4096

\* num_sectors: int = 8
DefaultNumSectors == 8

\* a non-negative integer below 2^32 as a word
ToWord(n) == W(n \div Half, n % Half)

\* _sectors(n, done=done)
_sectors(n, done) == [k \in 1..n |-> IF k <= done THEN 0 ELSE ERASED_BYTE]

TrailerState(magic, image_ok, copy_done, swap_type, swap_size, sector_status, num_sectors) ==
    [magic |-> magic, image_ok |-> image_ok, copy_done |-> copy_done,
     swap_type |-> swap_type, swap_size |-> swap_size,
     sector_status |-> sector_status, num_sectors |-> num_sectors]

\* _ts(n, ...) with every keyword given
_ts(n, magic, image_ok, copy_done, swap_type, swap_size, sector_status) ==
    TrailerState(magic, image_ok, copy_done, swap_type, swap_size, sector_status, n)

MCUbootScenario(s0, s1, slot0_valid, slot1_valid, description, bug_class) ==
    [slot0_trailer |-> s0, slot1_trailer |-> s1, slot0_valid |-> slot0_valid,
     slot1_valid |-> slot1_valid, description |-> description,
     bug_class |-> bug_class]

_edge_cases(ns) ==
    LET sz == ToWord(ns * DEFAULT_SECTOR_SIZE)
        dflt == W(65535, 65535)
        fresh == _sectors(ns, 0)
        all_done == _sectors(ns, ns)
        erased == _ts(ns, "UNSET", "UNSET", "UNSET", "NONE", dflt, fresh)
        confirmed == _ts(ns, "GOOD", "SET", "UNSET", "NONE", dflt, fresh)
        sc(s0, s1, desc) == MCUbootScenario(s0, s1, TRUE, TRUE, desc, None)
        bug(s0, s1, desc, cls) == MCUbootScenario(s0, s1, TRUE, TRUE, desc, Some(cls))
    IN  << sc(confirmed, erased, <<"baseline: confirmed slot 0, slot 1 erased">>),
           sc(confirmed, _ts(ns, "GOOD", "UNSET", "UNSET", "TEST", sz, fresh),
              <<"TEST upgrade pending; swap not started">>),
           sc(confirmed, _ts(ns, "GOOD", "UNSET", "UNSET", "PERM", sz, fresh),
              <<"PERM upgrade pending; swap not started">>),
           sc(_ts(ns, "GOOD", "SET", "SET", "NONE", sz, all_done),
              _ts(ns, "GOOD", "UNSET", "UNSET", "TEST", sz, all_done),
              <<"swap complete, image_ok confirmed">>),
           sc(_ts(ns, "GOOD", "UNSET", "SET", "NONE", sz, all_done),
              _ts(ns, "GOOD", "UNSET", "UNSET", "TEST", sz, all_done),
              <<"swap complete, image_ok NOT set; will revert">>),
           sc(_ts(ns, "GOOD", "UNSET", "UNSET", "REVERT", sz, _sectors(ns, ns \div 2)),
              erased, <<"revert in progress", ns \div 2, ns>>),
           bug(confirmed, _ts(ns, "PARTIAL", "UNSET", "UNSET", "TEST", sz, fresh),
               <<"partial magic in slot 1; swap must NOT trigger">>, "PARTIAL_MAGIC"),
           MCUbootScenario(
               _ts(ns, "GOOD", "UNSET", "SET", "NONE", sz, _sectors(ns, ns \div 2)),
               _ts(ns, "GOOD", "UNSET", "UNSET", "TEST", sz, _sectors(ns, ns \div 2)),
               FALSE, TRUE,
               <<"copy_done SET but sectors done (bug #2109)", ns \div 2, ns>>,
               Some("RESUME_2109")),
           bug(_ts(ns, "GOOD", "UNSET", "UNSET", "REVERT", sz, fresh),
               _ts(ns, "GOOD", "UNSET", "UNSET", "REVERT", sz, fresh),
               <<"both slots REVERT (bug #2199); brick/loop">>, "STUCK_REVERT_2199"),
           bug(confirmed, _ts(ns, "GOOD", "SET", "UNSET", "TEST", sz, fresh),
               <<"TEST with image_ok pre-set (no-op upgrade risk)">>, "NOOP_UPGRADE"),
           bug(confirmed, _ts(ns, "GOOD", "UNSET", "UNSET", "TEST", W(0, 0), fresh),
               <<"swap_size=0; potential divide-by-zero">>, "SWAP_SIZE_ZERO"),
           bug(_ts(ns, "GOOD", "UNSET", "UNSET", "NONE", sz, _sectors(ns, 1)),
               _ts(ns, "GOOD", "UNSET", "UNSET", "TEST", sz, _sectors(ns, 1)),
               <<"swap interrupted after 1 of sectors", ns>>, "MOVE_PARTIAL"),
           sc(erased, erased, <<"factory-fresh: both erased">>),
           sc(_ts(ns, "BAD", "BAD", "BAD", "NONE", W(0, 0), [k \in 1..ns |-> 0]),
              erased, <<"slot 0 all-zero (corrupt); fall through to boot">>),
           sc(_ts(ns, "GOOD", "UNSET", "SET", "NONE", sz, all_done),
              _ts(ns, "GOOD", "UNSET", "UNSET", "PERM", sz, all_done),
              <<"PERM swap complete; image_ok irrelevant">>),
           MCUbootScenario(
               confirmed, _ts(ns, "GOOD", "UNSET", "UNSET", "PERM", sz, fresh),
               TRUE, FALSE, <<"PERM pending but slot 1 image invalid">>, None) >>

\* _random_trailer(rng, ns): the trailer v and the generator state p after
_random_trailer(pos, ns) ==
    LET magic == Choice(pos, <<"GOOD", "UNSET", "BAD", "PARTIAL">>)
        image_ok == Choice(RngAdvance(pos, 1), <<"UNSET", "SET", "BAD">>)
        copy_done == Choice(RngAdvance(pos, 2), <<"UNSET", "SET", "BAD">>)
        swap_type == Choice(RngAdvance(pos, 3), <<"NONE", "TEST", "PERM", "REVERT">>)
        some_size == RandInt(RngAdvance(pos, 4), 0, ns * DEFAULT_SECTOR_SIZE)
        swap_size == Choice(RngAdvance(pos, 5),
                            <<W(65535, 65535), W(0, 0),
                              ToWord(ns * DEFAULT_SECTOR_SIZE), ToWord(some_size)>>)
        done == RandInt(RngAdvance(pos, 6), 0, ns)
    IN  [v |-> TrailerState(magic, image_ok, copy_done, swap_type, swap_size,
                            _sectors(ns, done), ns),
         p |-> RngAdvance(pos, 7)]

\* lines 311-318: one iteration of the fill loop
RandomMcuScenario(pos, i, ns) ==
    LET t0 == _random_trailer(pos, ns)
        t1 == _random_trailer(t0.p, ns)
    IN  [v |-> MCUbootScenario(t0.v, t1.v,
                               RandomAbove(t1.p, 1, 4),
                               RandomAbove(RngAdvance(t1.p, 1), 1, 2),
                               <<"random", i>>, None),
         p |-> RngAdvance(t1.p, 2)]

RECURSIVE RandomMcuFill(_, _, _, _)
\* iterations i .. remaining - 1 of the fill loop
RandomMcuFill(pos, i, remaining, ns) ==
    IF i >= remaining THEN <<>>
    ELSE LET s == RandomMcuScenario(pos, i, ns)
         IN  <<s.v>> \o RandomMcuFill(s.p, i + 1, remaining, ns)

\* generate_scenarios(count, seed, num_sectors) of mcuboot_state_fuzzer.py
\* with the module-level generator in state shared
mcuboot_generate_scenarios(count, seed, num_sectors, shared) ==
    LET rng == NewRandom(seed, shared)
        edge == _edge_cases(num_sectors)
        remaining == IF count - Len(edge) > 0 THEN count - Len(edge) ELSE 0
    IN  Truncate(edge \o RandomMcuFill(rng, 0, remaining, num_sectors), count)

\* ------------------------------------------------------------------------
\* The scenario generators called by a harness that also runs the A/B oracle
\* on what it generated
\* ------------------------------------------------------------------------
MinCount == 17

MaxCount == 19

MaxSeed == 1

Counts == MinCount..MaxCount

Seeds == 0..MaxSeed

\* the counts asked of the MCUboot generator lie around the length of its
\* edge-case list as Counts lie around the length of TargetedScenarios
McuCounts ==
    {c - (Len(TargetedScenarios) - Len(_edge_cases(DefaultNumSectors))) : c \in Counts}

Generated(kind, count, seed, scenarios) ==
    [kind |-> kind, count |-> count, seed |-> seed, scenarios |-> scenarios]

InitGen ==
    /\ lastGen = None
    /\ prevGen = None
    /\ scenario = IdleScenario
    /\ outcome = None
    /\ trace = None
    /\ globalRng = 0
    /\ mcuScenario = IdleMcuScenario
    /\ prediction = None
    /\ invCall = IdleInvCall
    /\ invReturn = None
    /\ toolCall = None
    /\ toolReturn = None
    /\ audit = None

\* scenarios = state_fuzzer.generate_scenarios(count=count, seed=seed)
GenerateAB(count, seed) ==
    /\ lastGen' = Some(Generated("ab", count, seed,
                                 generate_scenarios(count, seed, globalRng)))
    /\ prevGen' = lastGen
    /\ UNCHANGED <<abVars, mcuVars, invVars, toolVars, audit>>

\* scenarios = mcuboot_state_fuzzer.generate_scenarios(count, seed)
GenerateMcu(count, seed) ==
    /\ lastGen' = Some(Generated("mcuboot", count, seed,
                                 mcuboot_generate_scenarios(count, seed,
                                                            DefaultNumSectors, globalRng)))
    /\ prevGen' = lastGen
    /\ UNCHANGED <<abVars, mcuVars, invVars, toolVars, audit>>

\* outcome = expected_outcome(s) for a scenario s of the generated list
EvaluateGenerated(i) ==
    /\ lastGen # None
    /\ Get(lastGen).kind = "ab"
    /\ i \in 1..Len(Get(lastGen).scenarios)
    /\ scenario' = Get(lastGen).scenarios[i]
    /\ outcome' = Some(expected_outcome(scenario', globalRng))
    /\ trace' = Some(OutcomeLocals(scenario', globalRng))
    /\ globalRng' = RngAfterOutcome(scenario', globalRng)
    /\ UNCHANGED <<mcuVars, genVars, invVars, toolVars, audit>>

NextGen ==
    \/ \E count \in Counts, seed \in Seeds : GenerateAB(count, seed)
    \/ \E count \in McuCounts, seed \in Seeds : GenerateMcu(count, seed)
    \/ \E i \in 1..MaxCount : EvaluateGenerated(i)

SpecGen == InitGen /\ [][NextGen]_vars

\* ------------------------------------------------------------------------
\* Claims about the generators (checked under SpecGen)
\* ------------------------------------------------------------------------
SameCall == lastGen # None /\ prevGen # None
            /\ Get(lastGen).kind = Get(prevGen).kind
            /\ Get(lastGen).count = Get(prevGen).count
            /\ Get(lastGen).seed = Get(prevGen).seed

\* C10: two calls of generate_scenarios with the same count and seed return
\* lists that are equal element by element, for the A/B generator and for
\* the MCUboot generator.
C10_SameSeedSameScenarios ==
    SameCall => Get(lastGen).scenarios = Get(prevGen).scenarios

\* the same call made twice, the second after the oracle has drawn from the
\* module-level generator, with random scenarios after the targeted ones
C10_Witness ==
    /\ SameCall
    /\ globalRng # 0
    /\ Get(lastGen).count > Len(TargetedScenarios)
    /\ Len(Get(lastGen).scenarios) = Get(lastGen).count

\* the number of curated scenarios a generator starts its list with
CuratedCount(kind) ==
    IF kind = "ab" THEN Len(TargetedScenarios)
    ELSE Len(_edge_cases(DefaultNumSectors))

SameCountOtherSeed ==
    /\ lastGen # None /\ prevGen # None
    /\ Get(lastGen).kind = Get(prevGen).kind
    /\ Get(lastGen).count = Get(prevGen).count
    /\ Get(lastGen).seed # Get(prevGen).seed

\* C11 as stated: for every count and every two different seeds the two
\* lists differ in at least one scenario.
C11_DifferentSeedsDiffer ==
    SameCountOtherSeed => Get(lastGen).scenarios # Get(prevGen).scenarios

\* C11 amended: two calls that differ only in the seed return lists of the
\* same length that agree on the curated prefix; up to the curated count the
\* lists are identical.
C11_SeedChangesOnlyRandomPart ==
    SameCountOtherSeed =>
        LET a == Get(lastGen).scenarios
            b == Get(prevGen).scenarios
            n == Get(lastGen).count
            curated == CuratedCount(Get(lastGen).kind)
        IN  /\ Len(a) = n /\ Len(b) = n
            /\ \A i \in 1..n : i <= curated => a[i] = b[i]
            /\ n <= curated => a = b

\* two calls with different seeds and a count the curated scenarios cover
C11_Witness ==
    /\ SameCountOtherSeed
    /\ Get(lastGen).count <= CuratedCount(Get(lastGen).kind)
    /\ Get(lastGen).scenarios = Get(prevGen).scenarios

\* ------------------------------------------------------------------------
\* invariants.py: Python values held by nvm_state, pre_state and the context
\* ------------------------------------------------------------------------
\* A value is None, an int, a bool or a str; a dict is a record of all the
\* keys the checks read, a key that is absent holding None.
PyInt(n) == <<"int", n>>

PyBool(b) == <<"bool", b>>

PyStr(s) == <<"str", s>>

IsNumber(x) == x # None /\ x[1] \in {"int", "bool"}

\* the integer a number stands for (True is 1, False is 0)
Num(x) == IF x[1] = "bool" THEN (IF x[2] THEN 1 ELSE 0) ELSE x[2]

\* bool(x)
Truthy(x) ==
    IF x = None THEN FALSE
    ELSE IF x[1] = "bool" THEN x[2]
    ELSE IF x[1] = "int" THEN x[2] # 0
    ELSE x[2] # ""

\* a == b
PyEq(a, b) ==
    IF a = None \/ b = None THEN a = None /\ b = None
    ELSE IF IsNumber(a) /\ IsNumber(b) THEN Num(a) = Num(b)
    ELSE IF IsNumber(a) \/ IsNumber(b) THEN FALSE
    ELSE a[2] = b[2]

\* a or b
PyOr(a, b) == IF Truthy(a) THEN a ELSE b

\* d.get(k, default)
DictGet(d, k, default) == IF d[k] = None THEN default ELSE d[k]

FaultResult(fault_at, boot_outcome, boot_slot, nvm_state, is_control) ==
    [fault_at |-> fault_at, boot_outcome |-> boot_outcome, boot_slot |-> boot_slot,
     nvm_state |-> nvm_state, raw_log |-> "", is_control |-> is_control]

\* ------------------------------------------------------------------------
\* invariants.py: the checks. A check returns "ok", "violation" (it raised
\* InvariantViolation) or "error" (it raised another exception).
\* ------------------------------------------------------------------------
_SRAM_START == 536870912

_SRAM_END == 537919488

\* the slot validity a dict carries: replica0_valid if present, else slot_a_valid
SlotAMark(d, default) == DictGet(d, "replica0_valid", DictGet(d, "slot_a_valid", default))

SlotBMark(d, default) == DictGet(d, "replica1_valid", DictGet(d, "slot_b_valid", default))

\* faulty variant: both slots must have been valid for the check to apply
check_at_least_one_bootable_both(result, pre_state) ==
    IF pre_state = None THEN "ok"
    ELSE IF ~(Truthy(SlotAMark(Get(pre_state), PyBool(FALSE)))
              /\ Truthy(SlotBMark(Get(pre_state), PyBool(FALSE)))) THEN "ok"
    ELSE IF result.boot_outcome # "success" THEN "violation"
    ELSE "ok"

check_at_least_one_bootable(result, pre_state) ==
    IF pre_state = None THEN "ok"
    ELSE IF ~(Truthy(SlotAMark(Get(pre_state), PyBool(FALSE)))
              \/ Truthy(SlotBMark(Get(pre_state), PyBool(FALSE)))) THEN "ok"
    ELSE IF result.boot_outcome # "success" THEN "violation"
    ELSE "ok"

\* faulty variant: nvm_state is read without the isinstance test
check_boot_matches_metadata_no_dict_test(result) ==
    IF result.nvm_state = None THEN "error"
    ELSE LET nvm == Get(result.nvm_state)
             requested == PyOr(nvm["requested_slot"], nvm["active_slot"])
             chosen == nvm["chosen_slot"]
         IN  IF requested = None \/ chosen = None THEN "ok"
             ELSE IF ~(Truthy(SlotAMark(nvm, None)) /\ Truthy(SlotBMark(nvm, None))) THEN "ok"
             ELSE IF result.boot_outcome # "success" THEN "ok"
             ELSE IF ~PyEq(chosen, requested) THEN "violation"
             ELSE "ok"

check_boot_matches_metadata(result) ==
    IF result.nvm_state = None THEN "ok"
    ELSE LET nvm == Get(result.nvm_state)
             requested == PyOr(nvm["requested_slot"], nvm["active_slot"])
             chosen == nvm["chosen_slot"]
         IN  IF requested = None \/ chosen = None THEN "ok"
             ELSE IF ~(Truthy(SlotAMark(nvm, None)) /\ Truthy(SlotBMark(nvm, None))) THEN "ok"
             ELSE IF result.boot_outcome # "success" THEN "ok"
             ELSE IF ~PyEq(chosen, requested) THEN "violation"
             ELSE "ok"

check_metadata_single_fault_consistency(result) ==
    IF result.is_control THEN "ok"
    ELSE IF result.nvm_state = None THEN "ok"
    ELSE LET nvm == Get(result.nvm_state)
             replica0_valid == nvm["replica0_valid"]
             replica1_valid == nvm["replica1_valid"]
         IN  IF replica0_valid = None \/ replica1_valid = None THEN "ok"
             ELSE IF ~Truthy(replica0_valid) /\ ~Truthy(replica1_valid) THEN "violation"
             ELSE "ok"

\* write_log is None or Some(list of addresses), partition_ranges None or
\* Some(list of <<start, end>>)
check_no_oob_writes(result, write_log, partition_ranges) ==
    IF write_log = None \/ partition_ranges = None THEN "ok"
    ELSE IF Get(partition_ranges) = <<>> THEN "ok"
    ELSE LET log == Get(write_log)
             ranges == Get(partition_ranges)
             inside(addr) == \E r \in 1..Len(ranges) :
                                 ranges[r][1] <= addr /\ addr < ranges[r][2]
         IN  IF \E k \in 1..Len(log) : ~inside(log[k]) THEN "violation" ELSE "ok"

\* lines 262-293: the problems found in the vector table of nvm, a dict whose
\* initial_sp and reset_vector are present; error when a comparison or the
\* bit test is applied to a value that is not a number
SlotIntegrityProblems(nvm) ==
    LET initial_sp == nvm["initial_sp"]
        reset_vector == nvm["reset_vector"]
        slot_start == nvm["slot_start"]
        slot_end == nvm["slot_end"]
        rv_addr == Num(reset_vector) - (Num(reset_vector) % 2)
        sp_bad == ~(_SRAM_START <= Num(initial_sp) /\ Num(initial_sp) < _SRAM_END)
        thumb_bad == Num(reset_vector) % 2 = 0
        ranged == slot_start # None /\ slot_end # None
        range_error ==
            ranged /\ (~IsNumber(slot_start)
                       \/ (Num(slot_start) <= rv_addr /\ ~IsNumber(slot_end)))
        range_bad ==
            ranged /\ ~(Num(slot_start) <= rv_addr /\ rv_addr < Num(slot_end))
    IN  IF ~IsNumber(initial_sp) \/ ~IsNumber(reset_vector) \/ range_error
        THEN [error |-> TRUE, problems |-> {}]
        ELSE [error |-> FALSE,
              problems |-> {p \in {"sp", "thumb", "range"} :
                               \/ p = "sp" /\ sp_bad
                               \/ p = "thumb" /\ thumb_bad
                               \/ p = "range" /\ range_bad}]

\* faulty variant: the Thumb bit is not looked at
check_slot_integrity_no_thumb(result) ==
    IF result.boot_outcome # "success" THEN "ok"
    ELSE IF result.nvm_state = None THEN "ok"
    ELSE LET nvm == Get(result.nvm_state)
         IN  IF nvm["initial_sp"] = None \/ nvm["reset_vector"] = None THEN "ok"
             ELSE LET found == SlotIntegrityProblems(nvm)
                  IN  IF found.error THEN "error"
                      ELSE IF found.problems \ {"thumb"} # {} THEN "violation"
                      ELSE "ok"

check_slot_integrity(result) ==
    IF result.boot_outcome # "success" THEN "ok"
    ELSE IF result.nvm_state = None THEN "ok"
    ELSE LET nvm == Get(result.nvm_state)
         IN  IF nvm["initial_sp"] = None \/ nvm["reset_vector"] = None THEN "ok"
             ELSE LET found == SlotIntegrityProblems(nvm)
                  IN  IF found.error THEN "error"
                      ELSE IF found.problems # {} THEN "violation"
                      ELSE "ok"

\* ------------------------------------------------------------------------
\* invariants.py: run_invariants and default_invariants
\* ------------------------------------------------------------------------
_ALL_INVARIANTS ==
    <<"at_least_one_bootable", "boot_matches_metadata",
      "metadata_single_fault_consistency", "no_oob_writes", "slot_integrity">>

default_invariants(preset) ==
    IF preset = "resilient" THEN _ALL_INVARIANTS
    ELSE IF preset = "vulnerable" THEN <<"slot_integrity">>
    ELSE <<"at_least_one_bootable", "slot_integrity">>

\* check_fn(result, **context), the check named by its invariant_name
CallCheck(check_fn, result, context) ==
    IF check_fn = "at_least_one_bootable"
        THEN check_at_least_one_bootable(result, context.pre_state)
    ELSE IF check_fn = "boot_matches_metadata"
        THEN check_boot_matches_metadata(result)
    ELSE IF check_fn = "metadata_single_fault_consistency"
        THEN check_metadata_single_fault_consistency(result)
    ELSE IF check_fn = "no_oob_writes"
        THEN check_no_oob_writes(result, context.write_log, context.partition_ranges)
    ELSE check_slot_integrity(result)

Returned(violations) == [raised |-> FALSE, violations |-> violations]

Raised == [raised |-> TRUE, violations |-> <<>>]

RECURSIVE RunChecksFailFast(_, _, _, _, _)
\* faulty variant: the loop ends at the first violation
RunChecksFailFast(invariants, k, result, context, violations) ==
    IF k > Len(invariants) THEN Returned(violations)
    ELSE LET verdict == CallCheck(invariants[k], result, context)
         IN  IF verdict = "error" THEN Raised
             ELSE IF verdict = "violation"
                 THEN Returned(Append(violations, invariants[k]))
             ELSE RunChecksFailFast(invariants, k + 1, result, context, violations)

RECURSIVE RunChecks(_, _, _, _, _)
\* lines 349-354: the loop from check k on; only InvariantViolation is caught
RunChecks(invariants, k, result, context, violations) ==
    IF k > Len(invariants) THEN Returned(violations)
    ELSE LET verdict == CallCheck(invariants[k], result, context)
         IN  IF verdict = "error" THEN Raised
             ELSE RunChecks(invariants, k + 1, result, context,
                            IF verdict = "violation"
                            THEN Append(violations, invariants[k])
                            ELSE violations)

\* run_invariants(result, invariants, **context); invariants is None or
\* Some(list)
run_invariants(result, invariants, context) ==
    RunChecks(IF invariants = None THEN _ALL_INVARIANTS ELSE Get(invariants),
              1, result, context, <<>>)

\* ------------------------------------------------------------------------
\* run_invariants applied to a FaultResult and a context
\* ------------------------------------------------------------------------
MaxLogLen == 2

SlotIds == {None, PyInt(0), PyInt(1)}

Flags == {None, PyBool(TRUE), PyBool(FALSE)}

\* 0x10002000 and 0x10039000, the range of slot A
SlotStartAddr == 268443648

SlotEndAddr == 268668928

SpValues ==
    {None, PyInt(_SRAM_START - 1), PyInt(_SRAM_START), PyInt(537001984),
     PyInt(537001985), PyInt(_SRAM_END - 1), PyInt(_SRAM_END), PyBool(TRUE),
     PyStr("0x20001000")}

ResetVectorValues ==
    {None, PyInt(SlotStartAddr + 257), PyInt(SlotStartAddr + 256),
     PyInt(SlotStartAddr - 1), PyInt(SlotEndAddr + 1), PyInt(SlotEndAddr - 1),
     PyStr("0x10002101")}

NvmDictOf(slots, replica_flags, slot_flags, sps, rvs, starts, ends) ==
    [requested_slot : slots, active_slot : slots, chosen_slot : slots,
     replica0_valid : replica_flags, replica1_valid : replica_flags,
     slot_a_valid : slot_flags, slot_b_valid : slot_flags,
     initial_sp : sps, reset_vector : rvs, slot_start : starts, slot_end : ends]

\* dicts that carry slot choice and validity, dicts that carry a vector
\* table, and dicts that carry both
NvmDicts ==
    NvmDictOf(SlotIds, Flags, Flags, {None}, {None}, {None}, {None})
    \cup NvmDictOf({None}, {None}, {None}, SpValues, ResetVectorValues,
                   {None, PyInt(SlotStartAddr), PyStr("0x10002000")},
                   {None, PyInt(SlotEndAddr), PyStr("0x10039000")})
    \cup {d \in NvmDictOf({PyInt(0), PyInt(1)}, Flags, {PyBool(TRUE)},
                          {PyInt(_SRAM_START), PyInt(_SRAM_END)},
                          {PyInt(SlotStartAddr + 257), PyInt(SlotStartAddr + 256)},
                          {PyInt(SlotStartAddr)}, {PyInt(SlotEndAddr)}) :
             d.requested_slot = PyInt(1) /\ d.chosen_slot = PyInt(0)
             /\ d.active_slot = PyInt(0)}

EmptyNvmDict ==
    CHOOSE d \in NvmDictOf({None}, {None}, {None}, {None}, {None}, {None}, {None}) : TRUE

NvmStates(dicts) == {None} \cup {Some(d) : d \in dicts}

BootOutcomes == {"success", "hard_fault"}

PreStates ==
    {None} \cup {Some(d) : d \in [replica0_valid : Flags, replica1_valid : Flags,
                                  slot_a_valid : Flags, slot_b_valid : Flags]}

SlotAValidPreState ==
    Some([replica0_valid |-> None, replica1_valid |-> None,
          slot_a_valid |-> PyBool(TRUE), slot_b_valid |-> None])

LogAddresses == {4095, 4096, 8191, 8192}

WriteLogs ==
    {None} \cup {Some(l) : l \in UNION {[1..n -> LogAddresses] : n \in 0..MaxLogLen}}

PartitionRanges ==
    {None, Some(<<>>), Some(<< <<4096, 8192>> >>),
     Some(<< <<0, 4096>>, <<8192, 12288>> >>)}

InvariantLists ==
    {None, Some(default_invariants("vulnerable")), Some(default_invariants("baseline"))}

Context(pre_state, write_log, partition_ranges) ==
    [pre_state |-> pre_state, write_log |-> write_log,
     partition_ranges |-> partition_ranges]

NoContext == Context(None, None, None)

InvCall(result, invariants, context) ==
    [result |-> result, invariants |-> invariants, context |-> context]

FewNvmDicts ==
    {EmptyNvmDict, [EmptyNvmDict EXCEPT !.replica0_valid = PyBool(FALSE),
                                        !.replica1_valid = PyBool(FALSE)]}

FewPreStates == {None, SlotAValidPreState}

\* Every nvm_state with no context or one pre_state, or one of a few
\* nvm_states with every pre_state or every write log and partition ranges.
InvCallInput(dicts, pre_states, write_logs, partition_ranges) ==
    \E o \in BootOutcomes, n \in NvmStates(dicts), c \in BOOLEAN,
       i \in InvariantLists, p \in pre_states, l \in write_logs,
       g \in partition_ranges :
        invCall = InvCall(FaultResult(0, o, None, n, c), i, Context(p, l, g))

InitInv ==
    /\ \/ InvCallInput(NvmDicts, FewPreStates, {None}, {None})
       \/ InvCallInput(FewNvmDicts, PreStates, {None}, {None})
       \/ InvCallInput(FewNvmDicts, FewPreStates, WriteLogs, PartitionRanges)
    /\ invReturn = None
    /\ scenario = IdleScenario
    /\ outcome = None
    /\ trace = None
    /\ globalRng = 0
    /\ mcuScenario = IdleMcuScenario
    /\ prediction = None
    /\ lastGen = None
    /\ prevGen = None
    /\ toolCall = None
    /\ toolReturn = None
    /\ audit = None

\* violations = run_invariants(result, invariants=invariants, **context)
RunInvariants ==
    /\ invReturn' = Some(run_invariants(invCall.result, invCall.invariants,
                                        invCall.context))
    /\ UNCHANGED <<invCall, abVars, mcuVars, genVars, toolVars, audit>>

NextInv == RunInvariants

SpecInv == InitInv /\ [][NextInv]_vars

\* ------------------------------------------------------------------------
\* Claims about the invariant checker (checked under SpecInv)
\* ------------------------------------------------------------------------
Ran == invReturn # None

CalledInvariants ==
    IF invCall.invariants = None THEN _ALL_INVARIANTS ELSE Get(invCall.invariants)

Called(name) == \E k \in 1..Len(CalledInvariants) : CalledInvariants[k] = name

Reported(name) ==
    \E k \in 1..Len(Get(invReturn).violations) : Get(invReturn).violations[k] = name

\* the check of that name, called on its own, raises InvariantViolation
Fails(name) == CallCheck(name, invCall.result, invCall.context) = "violation"

PositionOf(name) == CHOOSE k \in 1..Len(CalledInvariants) : CalledInvariants[k] = name

NvmIsDict == invCall.result.nvm_state # None

Nvm == Get(invCall.result.nvm_state)

\* nvm_state is not a dict, or a dict whose fields are ints, booleans or absent
WellFormedResult ==
    NvmIsDict => \A k \in DOMAIN Nvm : Nvm[k] = None \/ IsNumber(Nvm[k])

Succeeded == invCall.result.boot_outcome = "success"

\* C12: run_invariants never raises on a well-formed FaultResult with any
\* supplied or omitted context; it returns one violation per failing check,
\* in the order of the invariants list, a failing check not stopping the
\* later ones.
C12_CollectsEveryViolation ==
    (Ran /\ WellFormedResult) =>
        LET violations == Get(invReturn).violations
        IN  /\ ~Get(invReturn).raised
            /\ \A k \in 1..Len(CalledInvariants) :
                   Reported(CalledInvariants[k]) <=> Fails(CalledInvariants[k])
            /\ \A k \in 1..Len(violations) : Called(violations[k])
            /\ \A j, k \in 1..Len(violations) :
                   j < k => PositionOf(violations[j]) < PositionOf(violations[k])

\* two checks fail with a passing check between them, and both are returned
C12_Witness ==
    /\ Ran /\ WellFormedResult
    /\ Len(Get(invReturn).violations) = 2
    /\ \E k \in 1..Len(CalledInvariants) :
           /\ ~Fails(CalledInvariants[k])
           /\ PositionOf(Get(invReturn).violations[1]) < k
           /\ k < PositionOf(Get(invReturn).violations[2])

ContextOmitted == invCall.context = NoContext

\* C13 as stated: with all optional context omitted run_invariants returns
\* the empty list for every well-formed FaultResult.
C13_NoContextNoViolation ==
    (Ran /\ WellFormedResult /\ ContextOmitted) =>
        ~Get(invReturn).raised /\ Get(invReturn).violations = <<>>

\* C13 amended: with all optional context omitted run_invariants does not
\* raise, the checks that need context (at_least_one_bootable,
\* no_oob_writes) report nothing, and the list is empty when nvm_state is
\* not a dict.
C13_NoContextSkipsContextChecks ==
    (Ran /\ WellFormedResult /\ ContextOmitted) =>
        /\ ~Get(invReturn).raised
        /\ ~Reported("at_least_one_bootable")
        /\ ~Reported("no_oob_writes")
        /\ ~NvmIsDict => Get(invReturn).violations = <<>>

\* every check was run with no context and one that reads nvm_state failed
C13_Witness ==
    /\ Ran /\ WellFormedResult /\ ContextOmitted
    /\ invCall.invariants = None
    /\ ~Succeeded
    /\ Reported("metadata_single_fault_consistency")

PreStateSupplied == invCall.context.pre_state # None

PreState == Get(invCall.context.pre_state)

C15_MismatchReported ==
    (Ran /\ WellFormedResult /\ Called("boot_matches_metadata") /\ NvmIsDict) =>
        ((/\ Succeeded
          /\ Truthy(SlotAMark(Nvm, None)) /\ Truthy(SlotBMark(Nvm, None))
          /\ Nvm["requested_slot"] # None /\ Nvm["chosen_slot"] # None
          /\ ~PyEq(Nvm["requested_slot"], Nvm["chosen_slot"]))
         => Reported("boot_matches_metadata"))

VectorTableGiven ==
    /\ NvmIsDict
    /\ \A k \in {"initial_sp", "reset_vector", "slot_start", "slot_end"} :
           IsNumber(Nvm[k])
    /\ Num(Nvm["slot_end"]) = Num(Nvm["slot_start"]) + 225280

\* the oracle's check on the same stack pointer, reset vector and slot
OracleAccepts ==
    VectorsValid(ToWord(Num(Nvm["initial_sp"])), ToWord(Num(Nvm["reset_vector"])),
                 ToWord(Num(Nvm["slot_start"])))

\* C16 as stated: check_slot_integrity accepts the vector table of a
\* successful boot exactly when the oracle's vector check accepts it.
C16_SameAsOracle ==
    (Ran /\ Succeeded /\ VectorTableGiven) =>
        (~Reported("slot_integrity") <=> OracleAccepts)

\* C16 amended: check_slot_integrity accepts every vector table the oracle
\* accepts, and accepts exactly when the stack pointer is in
\* [0x20000000, 0x20100000), the Thumb bit is set and the reset PC is in
\* [slot_start, slot_end).
C16_OracleStricter ==
    (Ran /\ Succeeded /\ VectorTableGiven) =>
        LET sp == Num(Nvm["initial_sp"])
            rv == Num(Nvm["reset_vector"])
            pc == rv - (rv % 2)
        IN  /\ OracleAccepts => ~Reported("slot_integrity")
            /\ ~Reported("slot_integrity") <=>
                   (/\ 536870912 <= sp /\ sp < 537919488
                    /\ rv % 2 = 1
                    /\ Num(Nvm["slot_start"]) <= pc /\ pc < Num(Nvm["slot_end"]))

\* a stack pointer above the oracle's SRAM end passes check_slot_integrity
C16_Witness ==
    /\ Ran /\ Succeeded /\ VectorTableGiven
    /\ ~OracleAccepts
    /\ ~Reported("slot_integrity")

(***************************************************************************)
(* scripts/write_trace_heuristic.py: fault points chosen from a write      *)
(* trace.  A trace is a sequence of <<write_index, flash_offset>>, and     *)
(* slot_ranges is the sequence of the dict's <<bus_start, bus_end>>.       *)
(***************************************************************************)
Abs(n) == IF n < 0 THEN 0 - n ELSE n

Max(a, b) == IF a > b THEN a ELSE b

Min(a, b) == IF a < b THEN a ELSE b

\* sorted(s) of a set of integers
RECURSIVE Sorted(_)
Sorted(s) ==
    IF s = {} THEN <<>>
    ELSE LET least == CHOOSE x \in s : \A y \in s : x <= y
         IN  <<least>> \o Sorted(s \ {least})

\* the last page of each slot, as flash offsets
trailer_regions(slot_ranges, flash_base, page_size) ==
    { <<slot_ranges[k][2] - page_size - flash_base,
        slot_ranges[k][2] - flash_base>> : k \in DOMAIN slot_ranges }

\* the first and the last page of each slot, as flash offsets
boundary_regions(slot_ranges, flash_base, page_size) ==
    { <<slot_ranges[k][1] - flash_base,
        slot_ranges[k][1] - flash_base + page_size>> : k \in DOMAIN slot_ranges }
    \cup
    { <<slot_ranges[k][2] - page_size - flash_base,
        slot_ranges[k][2] - flash_base>> : k \in DOMAIN slot_ranges }

in_any_region(offset, regions) ==
    \E r \in regions : r[1] <= offset /\ offset < r[2]

\* the window that leaves out the writes before the jump
WindowAfter(i, len, discontinuity_window) ==
    i .. (Min(len, i + discontinuity_window + 1) - 1)

\* range(max(0, i - window), min(len(trace), i + window + 1)), 0-based
WindowAround(i, len, discontinuity_window) ==
    Max(0, i - discontinuity_window)
        .. (Min(len, i + discontinuity_window + 1) - 1)

\* Pass 1: the 0-based positions around every jump of more than a page
\* between trace[i - 1] and trace[i]
discontinuity_indices(trace_, page_size, discontinuity_window) ==
    UNION { IF Abs(trace_[i + 1][2] - trace_[i][2]) > page_size
            THEN WindowAround(i, Len(trace_), discontinuity_window)
            ELSE {} : i \in 1 .. (Len(trace_) - 1) }

\* Pass 2: the tier of the write at 0-based position i
TierOf(trace_, i, trailers, boundaries, discontinuities) ==
    IF in_any_region(trace_[i + 1][2], trailers) THEN 1
    ELSE IF i \in discontinuities THEN 1
    ELSE IF in_any_region(trace_[i + 1][2], boundaries) THEN 2
    ELSE 3

\* the fault points of the writes of one tier
Tier(t, trace_, trailers, boundaries, discontinuities) ==
    { trace_[i + 1][1] - 1 :
        i \in { j \in 0 .. (Len(trace_) - 1) :
                  TierOf(trace_, j, trailers, boundaries, discontinuities) = t } }

\* for i, fp in enumerate(sorted(s)): if i % step == 0
EveryKth(s, step) ==
    { fp \in s : Cardinality({ x \in s : x < fp }) % step = 0 }

\* nothing added after the sampling
NoFirstAndLast(trace_) == {}

\* all_fps = [w - 1 for w, _ in trace]; selected.add(min), selected.add(max)
FirstAndLast(trace_) ==
    LET all_fps == { trace_[i][1] - 1 : i \in DOMAIN trace_ }
    IN  { fp \in all_fps : \/ \A x \in all_fps : fp <= x
                           \/ \A x \in all_fps : fp >= x }

Selected(trace_, slot_ranges, flash_base, page_size, tier2_step, tier3_step, discontinuity_window) ==
    LET trailers == trailer_regions(slot_ranges, flash_base, page_size)
        boundaries == boundary_regions(slot_ranges, flash_base, page_size)
        discontinuities ==
            discontinuity_indices(trace_, page_size, discontinuity_window)
        tier1 == Tier(1, trace_, trailers, boundaries, discontinuities)
        tier2 == Tier(2, trace_, trailers, boundaries, discontinuities)
        tier3 == Tier(3, trace_, trailers, boundaries, discontinuities)
    IN  tier1
        \cup EveryKth(tier2 \ tier1, tier2_step)
        \cup EveryKth((tier3 \ tier1) \ tier2, tier3_step)
        \cup FirstAndLast(trace_)

classify_trace(trace_, slot_ranges, flash_base, page_size, tier2_step, tier3_step, discontinuity_window) ==
    IF trace_ = <<>> THEN <<>>
    ELSE Sorted(Selected(trace_, slot_ranges, flash_base, page_size,
                         tier2_step, tier3_step, discontinuity_window))

\* ---- the calls explored ----
MaxTraceLen == 3

Offsets == 0 .. 4

MaxStep == 2

MaxWindow == 1

\* write indices as the NVMC numbers them (1-based, increasing), the same
\* shifted by one, in reverse order, and all equal
WriteIndices(n) ==
    { [i \in 1 .. n |-> i], [i \in 1 .. n |-> i + 1],
      [i \in 1 .. n |-> n + 1 - i], [i \in 1 .. n |-> 1] }

OffsetSeqs(n) == [1 .. n -> Offsets]

Traces ==
    UNION { { [i \in 1 .. n |-> <<w[i], o[i]>>] :
                w \in WriteIndices(n), o \in OffsetSeqs(n) } :
            n \in 0 .. MaxTraceLen }

\* no slot, one slot, and two adjacent slots, as bus addresses
SlotRanges == { <<>>, << <<2, 5>> >>, << <<1, 3>>, <<3, 5>> >> }

FlashBases == {0, 1}

PageSizes == {1, 2}

ClassifyCall(trace_, slot_ranges, flash_base, page_size, tier2_step, tier3_step, discontinuity_window) ==
    [fn |-> "classify_trace", trace |-> trace_, slot_ranges |-> slot_ranges,
     flash_base |-> flash_base, page_size |-> page_size,
     tier2_step |-> tier2_step, tier3_step |-> tier3_step,
     discontinuity_window |-> discontinuity_window]

InitTrace ==
    /\ \E t \in Traces, s \in SlotRanges, b \in FlashBases, p \in PageSizes,
          k2 \in 1 .. MaxStep, k3 \in 1 .. MaxStep, w \in 0 .. MaxWindow :
           toolCall = Some(ClassifyCall(t, s, b, p, k2, k3, w))
    /\ toolReturn = None
    /\ scenario = IdleScenario
    /\ outcome = None
    /\ trace = None
    /\ globalRng = 0
    /\ mcuScenario = IdleMcuScenario
    /\ prediction = None
    /\ lastGen = None
    /\ prevGen = None
    /\ invCall = IdleInvCall
    /\ invReturn = None
    /\ audit = None

\* fault_points = classify_trace(trace, slot_ranges, ...)
ClassifyTrace ==
    /\ LET c == Get(toolCall)
       IN  toolReturn' =
               Some(classify_trace(c.trace, c.slot_ranges, c.flash_base,
                                   c.page_size, c.tier2_step, c.tier3_step,
                                   c.discontinuity_window))
    /\ UNCHANGED <<toolCall, abVars, mcuVars, genVars, invVars, audit>>

NextTrace == ClassifyTrace

SpecTrace == InitTrace /\ [][NextTrace]_vars

\* ---- claims about classify_trace ----
Classified == toolReturn # None

TraceOf == Get(toolCall).trace

FaultPoints == { Get(toolReturn)[k] : k \in DOMAIN Get(toolReturn) }

AllFaultPoints == { TraceOf[i][1] - 1 : i \in DOMAIN TraceOf }

\* C17: for every non-empty trace the list classify_trace returns contains
\* the smallest and the largest fault point of the trace, min(write_index) - 1
\* and max(write_index) - 1, whatever the slot ranges, page size, steps and
\* window are.
C17_FirstAndLastIncluded ==
    (Classified /\ TraceOf # <<>>) =>
        \A fp \in AllFaultPoints :
            ((\A x \in AllFaultPoints : fp <= x)
             \/ (\A x \in AllFaultPoints : fp >= x)) => fp \in FaultPoints

\* the last write is a bulk write that the tier 3 sampling skips, and is in
\* the result all the same
C17_Witness ==
    /\ Classified
    /\ TraceOf = << <<1, 0>>, <<2, 0>> >>
    /\ Get(toolCall).slot_ranges = <<>>
    /\ Get(toolCall).tier3_step = 2
    /\ FaultPoints = {0, 1}

\* the write at 1-based position i lies in the last page of some slot
InLastPage(i) ==
    LET c == Get(toolCall)
        bus == TraceOf[i][2] + c.flash_base
    IN  \E k \in DOMAIN c.slot_ranges :
            /\ c.slot_ranges[k][2] - c.page_size <= bus
            /\ bus < c.slot_ranges[k][2]

\* the writes at 1-based positions j and j + 1 are more than a page apart
Jump(j) ==
    /\ j \in 1 .. (Len(TraceOf) - 1)
    /\ Abs(TraceOf[j + 1][2] - TraceOf[j][2]) > Get(toolCall).page_size

\* C18 as stated: every write in the last page of a slot, and every write
\* within discontinuity_window positions of either write of a pair of
\* consecutive writes more than a page apart, has its fault point in the
\* result, whatever tier2_step and tier3_step are.
C18_Tier1Exhaustive ==
    Classified =>
        \A i \in DOMAIN TraceOf :
            (\/ InLastPage(i)
             \/ \E j \in DOMAIN TraceOf :
                    /\ Jump(j)
                    /\ \/ Abs(i - j) <= Get(toolCall).discontinuity_window
                       \/ Abs(i - (j + 1)) <= Get(toolCall).discontinuity_window)
            => (TraceOf[i][1] - 1) \in FaultPoints

\* C18 amended: every write in the last page of a slot, and every write
\* within discontinuity_window positions of the later write of a pair of
\* consecutive writes more than a page apart, has its fault point in the
\* result, whatever tier2_step and tier3_step are.
C18_Tier1AroundLaterWrite ==
    Classified =>
        \A i \in DOMAIN TraceOf :
            (\/ InLastPage(i)
             \/ \E j \in DOMAIN TraceOf :
                    /\ Jump(j)
                    /\ Abs(i - (j + 1)) <= Get(toolCall).discontinuity_window)
            => (TraceOf[i][1] - 1) \in FaultPoints

\* the second write is just before a jump and would be skipped by the
\* tier 3 sampling, and a write in a trailer page is kept too
C18_Witness ==
    /\ Classified
    /\ \/ /\ TraceOf = << <<1, 0>>, <<2, 0>>, <<3, 4>> >>
          /\ Get(toolCall).slot_ranges = <<>>
          /\ Get(toolCall).page_size = 1
          /\ Get(toolCall).tier3_step = 2
          /\ Get(toolCall).discontinuity_window = 1
       \/ /\ TraceOf = << <<1, 0>>, <<2, 4>>, <<3, 0>> >>
          /\ Get(toolCall).slot_ranges = << <<2, 5>> >>
          /\ Get(toolCall).flash_base = 0
          /\ Get(toolCall).page_size = 1
          /\ Get(toolCall).discontinuity_window = 0
    /\ FaultPoints = {0, 1, 2}

(***************************************************************************)
(* scripts/geometry_matrix.py: validation of an NVM layout.  A validator   *)
(* returns the errors it raises ValueError with, in order; the empty       *)
(* sequence means it returned normally.                                    *)
(***************************************************************************)
GeometryConfig(nvm_size, word_size, slot_a_offset, slot_a_size, slot_b_offset, slot_b_size, metadata_offset, metadata_size, sram_size) ==
    [nvm_size |-> nvm_size, word_size |-> word_size,
     slot_a_offset |-> slot_a_offset, slot_a_size |-> slot_a_size,
     slot_b_offset |-> slot_b_offset, slot_b_size |-> slot_b_size,
     metadata_offset |-> metadata_offset, metadata_size |-> metadata_size,
     sram_size |-> sram_size]

SectorRange(count, size) == [count |-> count, size |-> size]

\* the fields MCUbootGeometryConfig adds to a GeometryConfig
MCUbootGeometryConfig(base, slot_a_sectors, slot_b_sectors, scratch_offset, scratch_size, trailer_size, write_alignment) ==
    [nvm_size |-> base.nvm_size, word_size |-> base.word_size,
     slot_a_offset |-> base.slot_a_offset, slot_a_size |-> base.slot_a_size,
     slot_b_offset |-> base.slot_b_offset, slot_b_size |-> base.slot_b_size,
     metadata_offset |-> base.metadata_offset,
     metadata_size |-> base.metadata_size, sram_size |-> base.sram_size,
     slot_a_sectors |-> slot_a_sectors, slot_b_sectors |-> slot_b_sectors,
     scratch_offset |-> scratch_offset, scratch_size |-> scratch_size,
     trailer_size |-> trailer_size, write_alignment |-> write_alignment]

RECURSIVE _sector_total(_)
_sector_total(sectors) ==
    IF sectors = <<>> THEN 0
    ELSE Head(sectors).count * Head(sectors).size + _sector_total(Tail(sectors))

\* errors.append(e) under a condition
ErrorIf(cond, e) == IF cond THEN <<e>> ELSE <<>>

RECURSIVE Flatten(_)
Flatten(seqs) ==
    IF seqs = <<>> THEN <<>> ELSE Head(seqs) \o Flatten(Tail(seqs))

\* a_start < b_end and b_start < a_end
Overlaps(a, b) == a[1] < b[2] /\ b[1] < a[2]

\* for value % ws != 0, with Python's modulo by a positive word size
AlignmentErrors(config) ==
    LET ws == config.word_size
        misaligned(label) ==
            ErrorIf(config[label] % ws # 0, <<"not aligned", label>>)
    IN  misaligned("slot_a_offset") \o misaligned("slot_a_size")
        \o misaligned("slot_b_offset") \o misaligned("slot_b_size")
        \o misaligned("metadata_offset") \o misaligned("metadata_size")

\* slot A, slot B, metadata as (start, end_exclusive, label)
SlotAndMetadataRegions(config) ==
    << <<config.slot_a_offset, config.slot_a_offset + config.slot_a_size,
         "slot_a">>,
       <<config.slot_b_offset, config.slot_b_offset + config.slot_b_size,
         "slot_b">>,
       <<config.metadata_offset,
         config.metadata_offset + config.metadata_size, "metadata">> >>

\* ... and the boot region [0, slot_a_offset) if slot_a_offset > 0
Regions(config) ==
    SlotAndMetadataRegions(config)
    \o (IF config.slot_a_offset > 0
        THEN << <<0, config.slot_a_offset, "boot">> >>
        ELSE <<>>)

FitErrors(regions, nvm_size) ==
    Flatten([k \in DOMAIN regions |->
                ErrorIf(regions[k][2] > nvm_size,
                        <<"extends past NVM", regions[k][3]>>)])

\* the overlap check applied to neighbours in the list only
AdjacentOverlapErrors(regions) ==
    Flatten([i \in DOMAIN regions |->
                IF i + 1 \in DOMAIN regions
                THEN ErrorIf(Overlaps(regions[i], regions[i + 1]),
                             <<"overlaps", regions[i][3], regions[i + 1][3]>>)
                ELSE <<>>])

\* for i in range(len(regions)): for j in range(i + 1, len(regions))
PairwiseOverlapErrors(regions) ==
    Flatten([i \in DOMAIN regions |->
                Flatten([j \in DOMAIN regions |->
                            ErrorIf(j > i /\ Overlaps(regions[i], regions[j]),
                                    <<"overlaps", regions[i][3],
                                      regions[j][3]>>)])])

validate_geometry(config) ==
    ErrorIf(config.word_size \notin {4, 8}, <<"word_size must be 4 or 8">>)
    \o ErrorIf(config.nvm_size <= 0, <<"nvm_size must be positive">>)
    \o ErrorIf(config.metadata_size < 256, <<"metadata_size must be >= 256">>)
    \o ErrorIf(config.slot_a_size <= 0, <<"slot_a_size must be positive">>)
    \o ErrorIf(config.slot_b_size <= 0, <<"slot_b_size must be positive">>)
    \o ErrorIf(config.sram_size <= 0, <<"sram_size must be positive">>)
    \o AlignmentErrors(config)
    \o FitErrors(Regions(config), config.nvm_size)
    \o PairwiseOverlapErrors(Regions(config))

\* wa <= 0 or (wa & (wa - 1)) != 0
NotPowerOfTwo(wa) == wa <= 0 \/ ~ \E k \in 0 .. 30 : wa = 2 ^ k

ScratchErrors(config) ==
    LET scratch_end == config.scratch_offset + config.scratch_size
        scratch == <<config.scratch_offset, scratch_end>>
        scratch_regions == SlotAndMetadataRegions(config)
    IN  IF config.scratch_size > 0
        THEN ErrorIf(scratch_end > config.nvm_size,
                     <<"scratch area extends past NVM">>)
             \o Flatten([k \in DOMAIN scratch_regions |->
                           ErrorIf(Overlaps(scratch, scratch_regions[k]),
                                   <<"scratch overlaps",
                                     scratch_regions[k][3]>>)])
        ELSE <<>>

\* the checks validate_mcuboot_geometry makes itself
McubootErrors(config) ==
    ErrorIf(/\ config.slot_a_sectors # <<>>
            /\ _sector_total(config.slot_a_sectors) # config.slot_a_size,
            <<"slot_a_sectors total != slot_a_size">>)
    \o ErrorIf(/\ config.slot_b_sectors # <<>>
               /\ _sector_total(config.slot_b_sectors) # config.slot_b_size,
               <<"slot_b_sectors total != slot_b_size">>)
    \o ErrorIf(config.trailer_size > config.slot_a_size,
               <<"trailer_size exceeds slot_a_size">>)
    \o ErrorIf(NotPowerOfTwo(config.write_alignment),
               <<"write_alignment must be a power of two">>)
    \o ScratchErrors(config)

\* validate_geometry(config) raises before the MCUboot checks are made
validate_mcuboot_geometry(config) ==
    IF validate_geometry(config) # <<>> THEN validate_geometry(config)
    ELSE McubootErrors(config)

\* ---- the calls explored ----
WordSizes == {3, 4, 8}

NvmSizes == {0, 2048}

SlotOffsets == {-256, 0, 256, 260, 768, 1024}

SlotSizes == {0, 512, 516}

MetadataOffsets == {-512, 0, 512, 1280, 1536}

MetadataSizes == {128, 256, 512}

SramSizes == {0, 1024}

GeometryConfigs ==
    { GeometryConfig(n, w, ao, as, bo, bs, mo, ms, r) :
        n \in NvmSizes, w \in WordSizes, ao \in SlotOffsets \ {768, 1024},
        as \in SlotSizes, bo \in SlotOffsets \ {-256, 260},
        bs \in SlotSizes \ {516}, mo \in MetadataOffsets,
        ms \in MetadataSizes, r \in SramSizes }

\* a layout with no base error and a few with one
FewGeometryConfigs ==
    { GeometryConfig(2048, w, 256, as, 768, 512, mo, 256, 1024) :
        w \in {3, 4}, as \in {512, 516}, mo \in {512, 1280} }

SectorMaps ==
    { <<>>, <<SectorRange(2, 256)>>,
      <<SectorRange(1, 256), SectorRange(1, 128)>> }

McubootGeometryConfigs ==
    { MCUbootGeometryConfig(g, sa, sb, so, ss, t, wa) :
        g \in FewGeometryConfigs, sa \in SectorMaps,
        sb \in SectorMaps \ {<<SectorRange(1, 256), SectorRange(1, 128)>>},
        so \in {0, 1536, 1792}, ss \in {0, 256, 512}, t \in {128, 1024},
        wa \in {0, 6, 8} }

ValidateCall(fn, config) == [fn |-> fn, config |-> config]

InitGeom ==
    /\ \/ \E g \in GeometryConfigs :
              toolCall = Some(ValidateCall("validate_geometry", g))
       \/ \E g \in McubootGeometryConfigs :
              toolCall = Some(ValidateCall("validate_mcuboot_geometry", g))
    /\ toolReturn = None
    /\ scenario = IdleScenario
    /\ outcome = None
    /\ trace = None
    /\ globalRng = 0
    /\ mcuScenario = IdleMcuScenario
    /\ prediction = None
    /\ lastGen = None
    /\ prevGen = None
    /\ invCall = IdleInvCall
    /\ invReturn = None
    /\ audit = None

\* validate_geometry(config)
ValidateGeometry ==
    /\ Get(toolCall).fn = "validate_geometry"
    /\ toolReturn' = Some(validate_geometry(Get(toolCall).config))
    /\ UNCHANGED <<toolCall, abVars, mcuVars, genVars, invVars, audit>>

\* validate_mcuboot_geometry(config)
ValidateMcubootGeometry ==
    /\ Get(toolCall).fn = "validate_mcuboot_geometry"
    /\ toolReturn' = Some(validate_mcuboot_geometry(Get(toolCall).config))
    /\ UNCHANGED <<toolCall, abVars, mcuVars, genVars, invVars, audit>>

NextGeom == ValidateGeometry \/ ValidateMcubootGeometry

SpecGeom == InitGeom /\ [][NextGeom]_vars

\* ---- claims about the geometry validators ----
Validated(fn) == toolReturn # None /\ Get(toolCall).fn = fn

ConfigOf == Get(toolCall).config

ErrorsOf == { Get(toolReturn)[k] : k \in DOMAIN Get(toolReturn) }

\* slot A, slot B, metadata and the boot region [0, slot_a_offset)
FourRegions ==
    { <<ConfigOf.slot_a_offset, ConfigOf.slot_a_offset + ConfigOf.slot_a_size,
        "slot_a">>,
      <<ConfigOf.slot_b_offset, ConfigOf.slot_b_offset + ConfigOf.slot_b_size,
        "slot_b">>,
      <<ConfigOf.metadata_offset,
        ConfigOf.metadata_offset + ConfigOf.metadata_size, "metadata">>,
      <<0, ConfigOf.slot_a_offset, "boot">> }

SomeTwoOverlap ==
    \E a, b \in FourRegions :
        a[3] # b[3] /\ a[1] < b[2] /\ b[1] < a[2]

C20_AllViolationsTogether ==
    (/\ Validated("validate_mcuboot_geometry")
     /\ validate_geometry(ConfigOf) # <<>>
     /\ McubootErrors(ConfigOf) # <<>>) =>
        Get(toolReturn) = validate_geometry(ConfigOf) \o McubootErrors(ConfigOf)

\* C21: every MCUboot geometry with scratch_size > 0 that
\* validate_mcuboot_geometry accepts has its scratch area inside
\* [0, nvm_size) and disjoint from slot A, slot B, the metadata region and
\* the boot region [0, slot_a_offset).
C21_ScratchInsideAndDisjoint ==
    (/\ Validated("validate_mcuboot_geometry")
     /\ Get(toolReturn) = <<>>
     /\ ConfigOf.scratch_size > 0) =>
        LET scratch_end == ConfigOf.scratch_offset + ConfigOf.scratch_size
        IN  /\ 0 <= ConfigOf.scratch_offset
            /\ scratch_end <= ConfigOf.nvm_size
            /\ \A r \in FourRegions :
                   ~ (ConfigOf.scratch_offset < r[2] /\ r[1] < scratch_end)

(***************************************************************************)
(* scripts/audit_bootloader.py: one run of main().  The emulator is        *)
(* external: each invocation either fails (non-zero exit or no result      *)
(* file) or returns a result chosen from a small set.  Profiles ask for    *)
(* write faults only, --quick, --fault-start and --fault-end are unset and *)
(* calibration yields no trace file, so the fault points are built by the  *)
(* range of lines 883-888.  A float is a pair <<numerator, denominator>>.  *)
(***************************************************************************)
EXIT_ASSERTION_FAILURE == 1

EXIT_INFRA_FAILURE == 2

\* a < b for floats held as fractions with positive denominators
RateLt(a, b) == a[1] * b[2] < b[1] * a[2]

\* the invocation raised RuntimeError instead of returning data; data that
\* was returned is Some(data)
Failure == None

\* list(range(start, end, step)) for step >= 1
PyRange(start, end, step) ==
    IF end <= start THEN <<>>
    ELSE [k \in 1 .. ((end - start + step - 1) \div step) |->
            start + (k - 1) * step]

InSeq(x, s) == \E k \in DOMAIN s : s[k] = x

\* the fault points of the non-heuristic path
FaultPointList(max_writes, fault_start, fault_end, fault_step) ==
    LET step == Max(1, fault_step)
        fp_start == IF fault_start # None THEN Get(fault_start) ELSE 0
        fp_end == IF fault_end # None THEN Get(fault_end) ELSE max_writes
        fault_points == PyRange(fp_start, fp_end, step)
    IN  IF ~InSeq(max_writes - 1, fault_points) /\ fault_end = None
        THEN Append(fault_points, max_writes - 1)
        ELSE fault_points

\* run_calibration: total writes after the cap, or Failure when the
\* emulator failed or reported neither writes nor erases
run_calibration(data, max_writes_cap) ==
    IF data = Failure THEN Failure
    ELSE IF Get(data).total_writes <= 0 /\ Get(data).total_erases <= 0
    THEN Failure
    ELSE Some(Min(Get(data).total_writes, max_writes_cap))

\* a result of the runtime sweep format; absent keys are None
SweepResult(fault_at, fault_injected, boot_outcome, is_control) ==
    [fault_at |-> fault_at, fault_injected |-> fault_injected,
     boot_outcome |-> boot_outcome, is_control |-> is_control]

normalize_classic_result(data, fault_at) ==
    SweepResult(fault_at,
                Some(IF data.faulted = None THEN FALSE ELSE Get(data.faulted)),
                Some(IF data.boot_outcome = None THEN "hard_fault"
                     ELSE Get(data.boot_outcome)),
                None)

SetControl(result, is_control) ==
    [result EXCEPT !.is_control = Some(is_control)]

\* r.get("is_control", False)
IsControl(r) == r.is_control # None /\ Get(r.is_control)

\* r.get("fault_injected", False)
FaultInjected(r) == r.fault_injected # None /\ Get(r.fault_injected)

\* r.get("boot_outcome") == "success"
BootedOk(r) == r.boot_outcome = Some("success")

NotBootedOk(r) == ~BootedOk(r)

\* every non-control result taken as injected
InjectedAll(non_control) == non_control

\* injected = [r for r in non_control if r.get("fault_injected", False)]
Injected(non_control) == SelectSeq(non_control, FaultInjected)

\* only the first failure is recorded
FirstFailureOutcome(failures) ==
    IF failures = <<>> THEN <<>>
    ELSE LET o == IF failures[1].boot_outcome = None THEN "unknown"
                  ELSE Get(failures[1].boot_outcome)
         IN  [x \in {o} |-> 1]

\* outcome_counts[outcome] = outcome_counts.get(outcome, 0) + 1; a dict is
\* a function on its keys
FailureOutcomes(failures) ==
    LET outcome_of(r) == IF r.boot_outcome = None THEN "unknown"
                         ELSE Get(r.boot_outcome)
        keys == { outcome_of(failures[k]) : k \in DOMAIN failures }
    IN  [o \in keys |->
            Cardinality({ k \in DOMAIN failures :
                            outcome_of(failures[k]) = o })]

summarize_runtime_sweep(results) ==
    LET non_control == SelectSeq(results, LAMBDA r : ~IsControl(r))
        control == SelectSeq(results, IsControl)
        injected == Injected(non_control)
        not_injected == SelectSeq(non_control, LAMBDA r : ~FaultInjected(r))
        total == Len(injected)
        failures == SelectSeq(injected, NotBootedOk)
        recoveries == Len(SelectSeq(injected, BootedOk))
    IN  [total_fault_points |-> total,
         bricks |-> Len(failures),
         recoveries |-> recoveries,
         brick_rate |-> IF total # 0 THEN <<Len(failures), total>>
                        ELSE <<0, 1>>,
         discarded_no_fault_fired |-> Len(not_injected),
         failure_outcomes |-> FailureOutcomes(failures),
         control |-> IF control # <<>>
                     THEN Some([boot_outcome |->
                                    control[Len(control)].boot_outcome])
                     ELSE None]

\* a verdict is <<"PASS">> or <<"FAIL", reason>>; this one leaves out the
\* brick-rate minimum
VerdictNoMinimum(summary, expect) ==
    IF expect.should_find_issues /\ ~(summary.bricks > 0)
    THEN <<"FAIL", "expected to find bricks but found none">>
    ELSE IF ~expect.should_find_issues /\ summary.bricks > 0
    THEN <<"FAIL", "expected no bricks but found some">>
    ELSE <<"PASS">>

Verdict(summary, expect) ==
    LET found_issues == summary.bricks > 0
    IN  IF expect.should_find_issues /\ ~found_issues
        THEN <<"FAIL", "expected to find bricks but found none">>
        ELSE IF ~expect.should_find_issues /\ found_issues
        THEN <<"FAIL", "expected no bricks but found some">>
        ELSE IF /\ expect.should_find_issues
                /\ RateLt(summary.brick_rate, expect.brick_rate_min)
        THEN <<"FAIL", "brick rate below expected minimum">>
        ELSE <<"PASS">>

\* the assertions at the end of main
ExitStatus(summary, verdict, args) ==
    IF /\ ~args.no_control /\ ~args.no_assert_control_boots
       /\ summary.control # None
       /\ Get(summary.control).boot_outcome # Some("success")
    THEN EXIT_ASSERTION_FAILURE
    ELSE IF verdict[1] = "FAIL" THEN EXIT_ASSERTION_FAILURE
    ELSE 0

\* chunks = [fault_points[i:i + chunk_size] for i in range(0, len, chunk_size)]
Chunks(fault_points, num_workers) ==
    LET n == Min(num_workers, Len(fault_points))
        chunk_size == (Len(fault_points) + n - 1) \div n
        starts == PyRange(0, Len(fault_points), chunk_size)
    IN  [w \in DOMAIN starts |->
            SubSeq(fault_points, starts[w] + 1,
                   Min(Len(fault_points), starts[w] + chunk_size))]

\* control_at = max(999999, max_fp) + 1
ControlAt(fault_points) ==
    LET max_fp == CHOOSE p \in { fault_points[k] : k \in DOMAIN fault_points } :
                      \A k \in DOMAIN fault_points : fault_points[k] <= p
    IN  Max(999999, IF fault_points # <<>> THEN max_fp ELSE 999999) + 1

\* ---- the runs explored ----
MaxWrites == 2

Outcomes == {"success", "hard_fault", "infra_error"}

\* what the calibration run reports, or its failure
CalibrationReplies ==
    { Some([total_writes |-> w, total_erases |-> e]) :
        w \in 0 .. MaxWrites + 1, e \in 0 .. 1 } \cup {Failure}

\* the result.json of a classic run: boot_outcome and nvm_state.faulted
ClassicReplies ==
    { [boot_outcome |-> o, faulted |-> f] :
        o \in {None} \cup { Some(x) : x \in Outcomes },
        f \in {None, Some(TRUE), Some(FALSE)} }

\* one entry of a batch run's result list
BatchReplies(fault_at) ==
    { SweepResult(fault_at, f, Some(o), None) :
        o \in Outcomes, f \in {None, Some(TRUE), Some(FALSE)} }

\* the result lists a batch run over the given points can produce
BatchReplyLists(points) ==
    { l \in [DOMAIN points -> UNION { BatchReplies(points[k]) : k \in DOMAIN points }] :
        \A k \in DOMAIN points : l[k] \in BatchReplies(points[k]) }

ControlReplies ==
    { [boot_outcome |-> Some(o), faulted |-> None] :
        o \in {"success", "hard_fault"} }

Args ==
    { [fault_step |-> s, fault_start |-> None, fault_end |-> None,
       no_control |-> c, no_assert_control_boots |-> FALSE, workers |-> w] :
        s \in {1, 2}, c \in BOOLEAN, w \in {1, 2} }

Expectations ==
    { [should_find_issues |-> TRUE, brick_rate_min |-> m] :
        m \in { <<0, 1>>, <<1, 2>>, <<1, 1>> } }
    \cup { [should_find_issues |-> FALSE, brick_rate_min |-> <<0, 1>>] }

\* max_writes is None for "auto"
Profiles ==
    { [scenario |-> s, max_writes |-> m, max_writes_cap |-> MaxWrites,
       expect |-> e] :
        s \in {"resilient", "runtime"},
        m \in {None} \cup { Some(n) : n \in 0 .. MaxWrites },
        e \in Expectations }

\* the state of main() before calibration
AuditStart(args, profile) ==
    [pc |-> "calibrate", args |-> args, profile |-> profile,
     max_writes |-> None, fault_points |-> <<>>, chunks |-> <<>>,
     pending |-> {}, results |-> <<>>, raised |-> None, summary |-> None,
     verdict |-> None, exit_code |-> None]

InitAudit ==
    /\ \E a \in Args, p \in Profiles :
           /\ (p.scenario = "resilient" => a.workers = 1)
           /\ audit = Some(AuditStart(a, p))
    /\ toolCall = None
    /\ toolReturn = None
    /\ scenario = IdleScenario
    /\ outcome = None
    /\ trace = None
    /\ globalRng = 0
    /\ mcuScenario = IdleMcuScenario
    /\ prediction = None
    /\ lastGen = None
    /\ prevGen = None
    /\ invCall = IdleInvCall
    /\ invReturn = None

OthersUnchanged == UNCHANGED <<abVars, mcuVars, genVars, invVars, toolVars>>

\* except Exception as exc: ... return EXIT_INFRA_FAILURE
Raise(a, where) ==
    [a EXCEPT !.pc = "exit", !.raised = Some(where),
              !.exit_code = Some(EXIT_INFRA_FAILURE)]

\* where main() goes once the fault points have been run
AfterSweep(a) ==
    [a EXCEPT !.pc = IF a.args.no_control THEN "summarize" ELSE "control"]

\* the cap, the fault point list and the dispatch on the scenario
Schedule(a, max_writes) ==
    LET capped == Min(max_writes, a.profile.max_writes_cap)
        fault_points == FaultPointList(capped, a.args.fault_start,
                                       a.args.fault_end, a.args.fault_step)
        parallel == /\ a.profile.scenario \notin {"resilient", "vulnerable"}
                    /\ fault_points # <<>> /\ a.args.workers > 1
        chunks == IF parallel THEN Chunks(fault_points, a.args.workers)
                  ELSE <<>>
    IN  [a EXCEPT !.pc = IF a.profile.scenario \in {"resilient", "vulnerable"}
                         THEN "classic"
                         ELSE IF parallel THEN "workers" ELSE "batch",
                  !.max_writes = Some(capped),
                  !.fault_points = fault_points,
                  !.chunks = chunks,
                  !.pending = DOMAIN chunks]

\* main(), lines 779-888: max_writes from the profile or from calibration
Calibrate ==
    /\ audit # None /\ Get(audit).pc = "calibrate"
    /\ LET a == Get(audit)
       IN  IF a.profile.max_writes = None
           THEN \E data \in CalibrationReplies :
                    LET total_writes ==
                            run_calibration(data, a.profile.max_writes_cap)
                    IN  audit' = Some(IF total_writes = Failure
                                      THEN Raise(a, <<"calibration">>)
                                      ELSE Schedule(a, Get(total_writes)))
           ELSE audit' = Some(Schedule(a, Get(a.profile.max_writes)))
    /\ OthersUnchanged

\* run_classic_sweep, one turn of the loop over fault_points
RunPoint ==
    /\ audit # None /\ Get(audit).pc = "classic"
    /\ LET a == Get(audit)
           fp == a.fault_points[Len(a.results) + 1]
       IN  \E data \in { Some(d) : d \in ClassicReplies } \cup {Failure} :
               audit' =
                   Some(IF data = Failure THEN Raise(a, <<"fault", fp>>)
                        ELSE LET r == SetControl(
                                          normalize_classic_result(Get(data),
                                                                   fp),
                                          FALSE)
                                 b == [a EXCEPT !.results = Append(@, r)]
                             IN  IF Len(b.results) = Len(b.fault_points)
                                 THEN AfterSweep(b) ELSE b)
    /\ OthersUnchanged

\* run_runtime_sweep with one worker: one batch run for all fault points
RunBatch ==
    /\ audit # None /\ Get(audit).pc = "batch"
    /\ LET a == Get(audit)
       IN  \/ audit' = Some(Raise(a, <<"batch">>))
           \/ \E data \in BatchReplyLists(a.fault_points) :
                  audit' = Some(AfterSweep(
                      [a EXCEPT !.results =
                          [k \in DOMAIN data |-> SetControl(data[k], FALSE)]]))
    /\ OthersUnchanged

\* run_runtime_sweep with several workers: the next future of as_completed
WorkerFinishes ==
    /\ audit # None /\ Get(audit).pc = "workers"
    /\ LET a == Get(audit)
       IN  \E wid \in a.pending :
               \/ audit' = Some(Raise(a, <<"worker", wid>>))
               \/ \E data \in BatchReplyLists(a.chunks[wid]) :
                      LET b == [a EXCEPT
                                  !.pending = @ \ {wid},
                                  !.results = @ \o
                                      [k \in DOMAIN data |->
                                          SetControl(data[k], FALSE)]]
                      IN  audit' = Some(IF b.pending = {} THEN AfterSweep(b)
                                        ELSE b)
    /\ OthersUnchanged

\* the control point, run after the sweep
RunControl ==
    /\ audit # None /\ Get(audit).pc = "control"
    /\ LET a == Get(audit)
           control_at == ControlAt(a.fault_points)
       IN  \E data \in { Some(d) : d \in ControlReplies } \cup {Failure} :
               audit' =
                   Some(IF data = Failure THEN Raise(a, <<"control">>)
                        ELSE [a EXCEPT
                                !.pc = "summarize",
                                !.results = Append(@, SetControl(
                                    normalize_classic_result(Get(data),
                                                             control_at),
                                    TRUE))])
    /\ OthersUnchanged

\* main(), lines 953-1060: summary, verdict and exit status
Summarize ==
    /\ audit # None /\ Get(audit).pc = "summarize"
    /\ LET a == Get(audit)
           sweep_summary == summarize_runtime_sweep(a.results)
           verdict == Verdict(sweep_summary, a.profile.expect)
       IN  audit' = Some([a EXCEPT
                            !.pc = "exit",
                            !.summary = Some(sweep_summary),
                            !.verdict = Some(verdict),
                            !.exit_code =
                                Some(ExitStatus(sweep_summary, verdict,
                                                a.args))])
    /\ OthersUnchanged

NextAudit ==
    \/ Calibrate
    \/ RunPoint
    \/ RunBatch
    \/ WorkerFinishes
    \/ RunControl
    \/ Summarize

SpecAudit == InitAudit /\ [][NextAudit]_vars


\* ---- claims about the audit's summary ----
Summarized == audit # None /\ Get(audit).summary # None

SweepSummary == Get(Get(audit).summary)

\* the results of the fault points, by position in the result list
NonControl == { k \in DOMAIN Get(audit).results : ~IsControl(Get(audit).results[k]) }

ResultAt(k) == Get(audit).results[k]

NotFired(k) == ResultAt(k).fault_injected \in {None, Some(FALSE)}

CountedBrick(k) == ~NotFired(k) /\ ResultAt(k).boot_outcome # Some("success")

CountedRecovery(k) == ~NotFired(k) /\ ResultAt(k).boot_outcome = Some("success")

\* C22: the summary is fail-closed: the bricks, the recoveries and the
\* discarded results count disjoint sets of fault-point results that cover
\* them all; a result whose fault was not injected (flag absent or false) is
\* counted as discarded only; bricks + recoveries = total_fault_points; and
\* brick_rate is bricks / total_fault_points, 0 when there are none
C22_FailClosed ==
    Summarized =>
        LET s == SweepSummary
        IN  /\ s.discarded_no_fault_fired
                 = Cardinality({ k \in NonControl : NotFired(k) })
            /\ s.bricks = Cardinality({ k \in NonControl : CountedBrick(k) })
            /\ s.recoveries
                 = Cardinality({ k \in NonControl : CountedRecovery(k) })
            /\ s.bricks + s.recoveries + s.discarded_no_fault_fired
                 = Cardinality(NonControl)
            /\ s.total_fault_points
                 = Cardinality({ k \in NonControl : ~NotFired(k) })
            /\ s.bricks + s.recoveries = s.total_fault_points
            /\ IF s.total_fault_points = 0 THEN s.brick_rate[1] = 0
               ELSE s.brick_rate[1] * s.total_fault_points
                        = s.bricks * s.brick_rate[2]

\* a summary of a sweep with a brick and a result whose fault flag is absent
C22_Witness ==
    /\ Summarized
    /\ SweepSummary.bricks >= 1
    /\ SweepSummary.discarded_no_fault_fired >= 1
    /\ \E k \in NonControl : ResultAt(k).fault_injected = None


InfraError(k) == ResultAt(k).boot_outcome = Some("infra_error")

\* C23: a fault-point result whose boot_outcome is "infra_error" is counted
\* neither as a brick nor as a recovery and is not part of
\* total_fault_points: the three counts are those of the remaining injected
\* results
C23_InfraErrorNotCounted ==
    Summarized =>
        LET s == SweepSummary
            counted == { k \in NonControl : ~NotFired(k) /\ ~InfraError(k) }
        IN  /\ s.total_fault_points = Cardinality(counted)
            /\ s.bricks = Cardinality({ k \in counted : CountedBrick(k) })
            /\ s.recoveries
                 = Cardinality({ k \in counted : CountedRecovery(k) })


\* ---- the campaign as a whole: every enabled step of main() is taken ----
SpecAuditFair == InitAudit /\ [][NextAudit]_vars /\ WF_vars(NextAudit)

\* the emulator invocation of fault point p failed
PointFailed(p) ==
    /\ audit # None
    /\ Get(audit).raised = Some(<<"fault", p>>)

\* the campaign ran to its summary with a result for every fault point, the
\* one of p recorded as an infrastructure error
CampaignCompleted(p) ==
    /\ Summarized
    /\ \A i \in DOMAIN Get(audit).fault_points :
           \E k \in NonControl :
               ResultAt(k).fault_at = Get(audit).fault_points[i]
    /\ \E k \in NonControl : ResultAt(k).fault_at = p /\ InfraError(k)

\* C24: when the emulator invocation of one fault point fails, the point is
\* recorded as an infrastructure error and the campaign continues: every
\* remaining fault point is still run and a summary is still produced
C24_CampaignContinues ==
    \A p \in -1 .. MaxWrites : PointFailed(p) ~> CampaignCompleted(p)


\* ---- claims about the verdict ----
Judged == audit # None /\ Get(audit).verdict # None

Failed == Get(Get(audit).verdict)[1] = "FAIL"

\* the profile's expectation is not met by the bricks found
ExpectationUnmet ==
    LET s == SweepSummary
        expect == Get(audit).profile.expect
        below == IF s.total_fault_points = 0
                 THEN 0 < expect.brick_rate_min[1]
                 ELSE s.bricks * expect.brick_rate_min[2]
                        < expect.brick_rate_min[1] * s.total_fault_points
    IN  \/ expect.should_find_issues /\ s.bricks = 0
        \/ expect.should_find_issues /\ below
        \/ ~expect.should_find_issues /\ s.bricks >= 1

\* C25: the verdict is FAIL exactly when the profile's expectation is unmet
\* (issues expected and no brick, issues expected and a brick rate below the
\* minimum, or no issues expected and at least one brick), and with a FAIL
\* verdict the exit status is not zero
C25_VerdictAndExit ==
    Judged =>
        /\ Failed <=> ExpectationUnmet
        /\ Failed => Get(audit).exit_code \notin {None, Some(0)}

\* a FAIL although bricks were found: their rate is below the minimum
C25_Witness ==
    /\ Judged
    /\ Failed
    /\ SweepSummary.bricks >= 1
    /\ Get(audit).profile.expect.should_find_issues
    /\ Get(audit).exit_code = Some(EXIT_ASSERTION_FAILURE)


\* ---- claims about the order of the results ----
NonControlResults == SelectSeq(Get(audit).results, LAMBDA r : ~IsControl(r))

ControlResults == SelectSeq(Get(audit).results, IsControl)

\* the result list with its fault-point results in the order pi
Reordered(pi) == [i \in DOMAIN NonControlResults |-> NonControlResults[pi[i]]] \o ControlResults

\* C26: the aggregation does not depend on the order of the results: for
\* every permutation of the fault-point results, summarize_runtime_sweep
\* gives the same total_fault_points, bricks, recoveries, brick_rate,
\* discarded_no_fault_fired and failure_outcomes, and so the same verdict
C26_OrderInsensitive ==
    Summarized =>
        \A pi \in Permutations(DOMAIN NonControlResults) :
            LET s == SweepSummary
                t == summarize_runtime_sweep(Reordered(pi))
                expect == Get(audit).profile.expect
            IN  /\ t.total_fault_points = s.total_fault_points
                /\ t.bricks = s.bricks
                /\ t.recoveries = s.recoveries
                /\ t.brick_rate = s.brick_rate
                /\ t.discarded_no_fault_fired = s.discarded_no_fault_fired
                /\ t.failure_outcomes = s.failure_outcomes
                /\ Verdict(t, expect) = Get(Get(audit).verdict)

\* two workers completed in the reverse of the order of their fault points,
\* with two different failures
C26_Witness ==
    /\ Summarized
    /\ Get(audit).chunks # <<>>
    /\ Len(NonControlResults) = 2
    /\ NonControlResults[1].fault_at > NonControlResults[2].fault_at
    /\ NonControlResults[1].boot_outcome = Some("hard_fault")
    /\ NonControlResults[2].boot_outcome = Some("infra_error")
    /\ SweepSummary.bricks = 2


\* ---- claims about the fault point list ----
Scheduled == audit # None /\ Get(audit).max_writes # None

\* C30: with --fault-start and --fault-end unset, every scheduled write fault
\* point p satisfies 0 <= p < max_writes and the last write, max_writes - 1,
\* is scheduled, whatever max_writes the calibration or the profile gives
\* (a calibration with no write but an erase included)
C30_FaultPointsInRange ==
    Scheduled =>
        LET a == Get(audit)
            max_writes == Get(a.max_writes)
        IN  /\ \A i \in DOMAIN a.fault_points :
                   0 <= a.fault_points[i] /\ a.fault_points[i] < max_writes
            /\ InSeq(max_writes - 1, a.fault_points)


\* ---- further claims about the MCUboot oracle (checked under SpecMcu) ----
GoodSwapRequest(t) == t.magic = "GOOD" /\ t.swap_type \in {"TEST", "PERM"}

\* C27 as stated: a slot0 trailer with magic PARTIAL gives BOOT_SLOT0 with
\* triggers_swap = False, with any slot1 trailer.
C27_PartialSlot0BootsSlot0Always ==
    (Predicted /\ S0.magic = "PARTIAL") =>
        /\ Get(prediction).action = "BOOT_SLOT0"
        /\ Get(prediction).triggers_swap = FALSE

\* C27 amended: a slot0 trailer with magic PARTIAL gives BOOT_SLOT0 with
\* triggers_swap = False unless slot1 requests a swap (slot1 magic GOOD with
\* swap_type TEST or PERM).
C27_PartialSlot0BootsSlot0 ==
    (Predicted /\ S0.magic = "PARTIAL" /\ ~GoodSwapRequest(S1)) =>
        /\ Get(prediction).action = "BOOT_SLOT0"
        /\ Get(prediction).triggers_swap = FALSE

C27_Witness ==
    /\ Predicted /\ S0.magic = "PARTIAL" /\ S0.swap_type = "REVERT"
    /\ S1.magic = "BAD" /\ S1.swap_type = "PERM"
    /\ Get(prediction).action = "BOOT_SLOT0"
    /\ Get(prediction).triggers_swap = FALSE


\* ---- both oracles, each applied to its scenario ----
\* every pair of slots with plain replicas
OracleFuzzScenarios ==
    [replica0 : PlainReplicas, replica1 : PlainReplicas,
     slot_a : SlotStates, slot_b : SlotStates,
     fault_at : {None}, description : {"input"}]

\* every combination of magic, swap type and set or unset flags, with erased
\* or half-done sectors
OracleMcuScenarios ==
    MCUbootScenarioSet({"UNSET", "SET"},
                       {<<ERASED_BYTE, ERASED_BYTE>>, <<0, ERASED_BYTE>>})

InitOracles ==
    /\ \/ scenario \in OracleFuzzScenarios /\ mcuScenario = IdleMcuScenario
       \/ scenario = IdleScenario /\ mcuScenario \in OracleMcuScenarios
    /\ outcome = None
    /\ trace = None
    /\ globalRng = 0
    /\ prediction = None
    /\ lastGen = None
    /\ prevGen = None
    /\ invCall = IdleInvCall
    /\ invReturn = None
    /\ toolCall = None
    /\ toolReturn = None
    /\ audit = None

NextOracles ==
    \/ ExpectedOutcome
    \/ PredictBoot

SpecOracles == InitOracles /\ [][NextOracles]_vars

\* boots is true exactly with a boot slot 0 or 1, false exactly with none
WellFormed(o) ==
    /\ o.boots \in BOOLEAN
    /\ o.boots <=> o.boot_slot \in {Some(0), Some(1)}
    /\ ~o.boots <=> o.boot_slot = None

\* C28: every result of expected_outcome and of predict_boot is well formed:
\* boots is true if and only if boot_slot is 0 or 1, and false if and only
\* if boot_slot is None
C28_WellFormedOutcomes ==
    /\ Evaluated => WellFormed(Get(outcome))
    /\ Predicted => WellFormed(Get(prediction))

\* an A/B outcome and a prediction that resumes a swap into slot 1
C28_Witness ==
    /\ Evaluated /\ Predicted
    /\ Get(outcome).boots
    /\ Get(prediction).action = "RESUME_SWAP"
    /\ Get(prediction).boot_slot = Some(1)


\* ---- further claims about the A/B oracle (checked under SpecAB) ----
\* the scenario with its two replicas exchanged
Exchanged == [scenario EXCEPT !.replica0 = scenario.replica1, !.replica1 = scenario.replica0]

\* the record selected from the scenario is the one selected from the
\* exchanged scenario: same seq and same active_slot
SameRecordSelected ==
    LET other == Get(SelectedReplica(Exchanged))
    IN  /\ TraceSelected.seq = other.seq
        /\ TraceSelected.active_slot = other.active_slot

\* the two sequence numbers are half the 32-bit range apart
HalfRangeApart == WSub(Seq0, Seq1) = W(32768, 0)

\* C29 as stated: with two valid replicas of different seq, exchanging
\* replica0 and replica1 leaves the selected record the same.
C29_SelectionIgnoresPosition ==
    (Evaluated /\ BothReplicasValid /\ Seq0 # Seq1) => SameRecordSelected

\* C29 amended: with two valid replicas whose seq differ by anything but
\* 2^31 (mod 2^32), exchanging replica0 and replica1 leaves the selected
\* record the same.
C29_SelectionIgnoresPositionOffHalfRange ==
    (Evaluated /\ BothReplicasValid /\ Seq0 # Seq1 /\ ~HalfRangeApart) =>
        SameRecordSelected

\* replica1 holds the newer record across the wraparound and is selected
C29_Witness ==
    /\ Evaluated /\ BothReplicasValid
    /\ Seq0 = W(65535, 65535) /\ Seq1 = W(0, 0)
    /\ Get(scenario.replica0).active_slot # Get(scenario.replica1).active_slot
    /\ Get(trace).selected = Some(1)
    /\ SameRecordSelected

====
